---- MODULE Spec2Model ----
(***************************************************************************)
(* Oak: the tree-walking interpreter (src/src/interpreter/mod.rs) over the *)
(* node shapes of src/src/parser/mod.rs and the builtin tables of          *)
(* src/src/math/mod.rs.                                                    *)
(*                                                                         *)
(* One Interpreter is the state: its `variables` map, together with the    *)
(* last tree handed to accept, the Value it returned, the map as it was    *)
(* before that call, and the lines the call printed.                       *)
(*                                                                         *)
(* Beside it: tokenize of src/src/tokenizer/mod.rs as a loop over its      *)
(* input (LexSpec), two Interpreters side by side (PairSpec), and the      *)
(* architecture functions of MathModule with calc_architecture_command     *)
(* (ArchSpec), and the loop of start_repl of src/src/repl/mod.rs over the   *)
(* lines of its standard input (ReplLive).                                 *)
(***************************************************************************)
EXTENDS Integers, Sequences, FiniteSets, TLC

VARIABLES variables, before, node, result, out, pc

\* tokenize: the input, the cursor, the tokens pushed so far, and where the
\* call is ("idle": not called, "loop": in the while loop, "done": returned)
VARIABLES chars, pos, tokens, lexpc

\* a second Interpreter, constructed independently, and its caller
VARIABLES peer

\* a call of calc_architecture_command or of a MathModule function, and what
\* it returned
VARIABLES request, reply

\* start_repl: the lines standard input still holds, the String `input`, the
\* text of the last println!, and where the loop is ("idle": not started,
\* "read": at input.clear(), "test": at the if, "exited": process::exit(0))
VARIABLES stdin, input, printed, replpc

interpVars == <<variables, before, node, result, out, pc>>

lexVars == <<chars, pos, tokens, lexpc>>

archVars == <<request, reply>>

replVars == <<stdin, input, printed, replpc>>

vars == <<interpVars, lexVars, peer, archVars, replVars>>

(***************************************************************************)
(* Bounds of the model.                                                    *)
(***************************************************************************)
\* inputs of tokenize have at most LexMaxLen characters of LexAlphabet
LexMaxLen == 4

\* number literals of the trees are 0 .. MaxLit
MaxLit == 2
\* a FunctionCall of the trees has at most MaxArgs arguments
MaxArgs == 2

\* standard input holds at most MaxLines lines
MaxLines == 2

(***************************************************************************)
(* f64.  A value is NaN, a signed infinity, or a signed finite number held *)
(* as the reduced fraction n/d (zero is signed: 0/1 with s = 1 or s = -1). *)
(* The special values follow IEEE-754 as Rust's f64 operators do; finite   *)
(* results are exact (the small operands of the model never round).  A     *)
(* finite number far below f64::EPSILON is held as the fraction n/d of     *)
(* 2^-200 (kind "tiny"): next to a fraction of the model it is lost in an  *)
(* addition, as round-to-nearest loses it, and it orders as its sign does. *)
(***************************************************************************)
RECURSIVE GCD(_, _)
GCD(a, b) == IF b = 0 THEN a ELSE GCD(b, a % b)

Abs(i) == IF i < 0 THEN -i ELSE i

NaN == [k |-> "nan", s |-> 1, n |-> 0, d |-> 0]

Inf(sign) == [k |-> "inf", s |-> sign, n |-> 1, d |-> 0]

Zero(sign) == [k |-> "fin", s |-> sign, n |-> 0, d |-> 1]

\* the finite value sign * num / den, num >= 0, den > 0
Fin(sign, num, den) ==
    IF num = 0 THEN Zero(sign)
    ELSE LET g == GCD(num, den)
         IN  [k |-> "fin", s |-> sign, n |-> num \div g, d |-> den \div g]

\* the finite value sign * num / den * 2^(-200 * scale); the model holds the
\* scales 0 and 1
Scaled(sign, num, den, scale) ==
    IF num = 0 THEN Zero(sign)
    ELSE IF scale = 0 THEN Fin(sign, num, den)
    ELSE IF scale = 1 THEN [Fin(sign, num, den) EXCEPT !.k = "tiny"]
    ELSE [k |-> "unrep", s |-> 1, n |-> 0, d |-> 0]

ScaleOf(a) == IF a.k = "tiny" THEN 1 ELSE 0

\* an integer as an f64
F(i) == Fin(IF i < 0 THEN -1 ELSE 1, Abs(i), 1)

\* a value a builtin returns that is not a fraction (an irrational such as
\* sqrt(2)): the evaluations that produce one are outside the inputs
Unrep == [k |-> "unrep", s |-> 1, n |-> 0, d |-> 0]

IsZero(a) == a.k = "fin" /\ a.n = 0

FNeg(a) == IF a.k \in {"nan", "unrep"} THEN a ELSE [a EXCEPT !.s = -a.s]

\* l + r
FAdd(a, b) ==
    IF a.k = "unrep" \/ b.k = "unrep" THEN Unrep
    ELSE IF a.k = "nan" \/ b.k = "nan" THEN NaN
    ELSE IF a.k = "inf" /\ b.k = "inf" THEN (IF a.s = b.s THEN a ELSE NaN)
    ELSE IF a.k = "inf" THEN a
    ELSE IF b.k = "inf" THEN b
    ELSE IF ScaleOf(a) # ScaleOf(b)
         THEN (IF a.k = "tiny" THEN (IF IsZero(b) THEN a ELSE b)
               ELSE (IF IsZero(a) THEN b ELSE a))
    ELSE LET num == a.s * a.n * b.d + b.s * b.n * a.d
         IN  IF num = 0
             THEN (IF IsZero(a) /\ IsZero(b) /\ a.s = b.s THEN Zero(a.s) ELSE Zero(1))
             ELSE Scaled(IF num < 0 THEN -1 ELSE 1, Abs(num), a.d * b.d, ScaleOf(a))

\* l - r
FSub(a, b) == FAdd(a, FNeg(b))

\* l * r
FMul(a, b) ==
    IF a.k = "unrep" \/ b.k = "unrep" THEN Unrep
    ELSE IF a.k = "nan" \/ b.k = "nan" THEN NaN
    ELSE IF a.k = "inf" \/ b.k = "inf"
         THEN (IF IsZero(a) \/ IsZero(b) THEN NaN ELSE Inf(a.s * b.s))
    ELSE Scaled(a.s * b.s, a.n * b.n, a.d * b.d, ScaleOf(a) + ScaleOf(b))

\* l / r
FDiv(a, b) ==
    IF a.k = "unrep" \/ b.k = "unrep" THEN Unrep
    ELSE IF a.k = "nan" \/ b.k = "nan" THEN NaN
    ELSE IF a.k = "inf" THEN (IF b.k = "inf" THEN NaN ELSE Inf(a.s * b.s))
    ELSE IF b.k = "inf" THEN Zero(a.s * b.s)
    ELSE IF IsZero(b) THEN (IF IsZero(a) THEN NaN ELSE Inf(a.s * b.s))
    ELSE Scaled(a.s * b.s, a.n * b.d, a.d * b.n, ScaleOf(a) - ScaleOf(b))

\* l < r, false when either is NaN (and -0.0 < 0.0 is false)
FLt(a, b) ==
    IF a.k \in {"nan", "unrep"} \/ b.k \in {"nan", "unrep"} THEN FALSE
    ELSE IF a.k = "inf" THEN a.s = -1 /\ ~(b.k = "inf" /\ b.s = -1)
    ELSE IF b.k = "inf" THEN b.s = 1
    ELSE IF a.k = "tiny" /\ b.k # "tiny"
         THEN (IF IsZero(b) THEN a.s = -1 ELSE b.s = 1)
    ELSE IF b.k = "tiny" /\ a.k # "tiny"
         THEN (IF IsZero(a) THEN b.s = 1 ELSE a.s = -1)
    ELSE a.s * a.n * b.d < b.s * b.n * a.d

IsSquare(i) == \E r \in 0..i : r * r = i

ISqrt(i) == CHOOSE r \in 0..i : r * r = i

(***************************************************************************)
(* MathModule (src/src/math/mod.rs).  std::f64::consts::PI and E are not   *)
(* fractions of small integers; the model uses the stand-ins 355/113 and   *)
(* 193/71.  A libm result that is not a fraction of the model is Unrep.    *)
(***************************************************************************)
MathPI == Fin(1, 355, 113)

MathE == Fin(1, 193, 71)

\* x.cos().abs() < f64::EPSILON: x is an odd multiple of PI/2
CosNearZero(x) ==
    x.k = "fin" /\ x.n # 0 /\
    LET q == FDiv(FMul(x, F(2)), MathPI) IN q.d = 1 /\ q.n % 2 = 1

MathModule_sin(x) ==
    IF x.k \in {"nan", "inf"} THEN NaN
    ELSE IF IsZero(x) THEN x
    ELSE Unrep

MathModule_cos(x) ==
    IF x.k \in {"nan", "inf"} THEN NaN
    ELSE IF IsZero(x) THEN F(1)
    ELSE Unrep

MathModule_tan(x) ==
    IF CosNearZero(x) THEN NaN
    ELSE IF x.k \in {"nan", "inf"} THEN NaN
    ELSE IF IsZero(x) THEN x
    ELSE Unrep

MathModule_sqrt(x) ==
    IF FLt(x, Zero(1)) THEN NaN
    ELSE IF x.k \in {"nan", "inf"} THEN x
    ELSE IF x.k = "fin" /\ IsSquare(x.n) /\ IsSquare(x.d)
    THEN Fin(x.s, ISqrt(x.n), ISqrt(x.d))
    ELSE Unrep

MathModule_log(x) ==
    IF FLt(x, Zero(1)) \/ IsZero(x) THEN NaN
    ELSE IF x.k \in {"nan", "inf"} THEN x
    ELSE IF x = F(1) THEN Zero(1)
    ELSE IF x = MathE THEN F(1)
    ELSE Unrep

MathModule_exp(x) ==
    IF x.k = "nan" THEN NaN
    ELSE IF x.k = "inf" THEN (IF x.s = 1 THEN x ELSE Zero(1))
    ELSE IF IsZero(x) THEN F(1)
    ELSE Unrep

MathModule_abs(x) == IF x.k \in {"nan", "unrep"} THEN x ELSE [x EXCEPT !.s = 1]

MathModule_to_radians(degrees) == FDiv(FMul(degrees, MathPI), F(180))

MathModule_to_degrees(radians) == FDiv(FMul(radians, F(180)), MathPI)

\* the keys of get_math_functions()
math_functions ==
    {"sin", "cos", "tan", "sqrt", "log", "exp", "abs", "to_radians", "to_degrees"}

\* math_func(x) for the function registered under name
math_func(name, x) ==
    CASE name = "sin" -> MathModule_sin(x)
      [] name = "cos" -> MathModule_cos(x)
      [] name = "tan" -> MathModule_tan(x)
      [] name = "sqrt" -> MathModule_sqrt(x)
      [] name = "log" -> MathModule_log(x)
      [] name = "exp" -> MathModule_exp(x)
      [] name = "abs" -> MathModule_abs(x)
      [] name = "to_radians" -> MathModule_to_radians(x)
      [] name = "to_degrees" -> MathModule_to_degrees(x)

\* get_math_constants()
math_constants == [PI |-> MathPI, E |-> MathE]

(***************************************************************************)
(* Value and the node shapes (src/src/parser/mod.rs).                      *)
(***************************************************************************)
Value_Number(f) == [kind |-> "Number", num |-> f]

Value_String(t) == [kind |-> "String", str |-> t]

Value_None == [kind |-> "None"]

Number(v) == [kind |-> "Number", value |-> v]

StringLiteral(t) == [kind |-> "StringLiteral", text |-> t]

Var(name) == [kind |-> "Var", name |-> name]

BinOp(left, op, right) == [kind |-> "BinOp", left |-> left, op |-> op, right |-> right]

Assign(name, expr) == [kind |-> "Assign", name |-> name, expr |-> expr]

FunctionCall(name, args) == [kind |-> "FunctionCall", name |-> name, args |-> args]

Comment(t) == [kind |-> "Comment", text |-> t]

EvalMathExp(t) == [kind |-> "EvalMathExp", text |-> t]

(***************************************************************************)
(* Interpreter (src/src/interpreter/mod.rs).  self is the `variables` map  *)
(* (the only field a visit changes); a visit returns its Value, the map it *)
(* leaves and the lines it wrote to standard output, in order.             *)
(***************************************************************************)
Ret(value, self, lines) == [value |-> value, variables |-> self, out |-> lines]

\* self.variables.insert(name, num)
insert(self, name, num) ==
    [v \in DOMAIN self \cup {name} |-> IF v = name THEN num ELSE self[v]]

RECURSIVE accept(_, _)

visit_eval_math_exp(self, nd) ==
    Ret(Value_None, self, <<[line |-> "Evaluando expresion matematica", text |-> nd.text]>>)

\* visit_bin_op with a checked division: a zero divisor yields None
visit_bin_op_checked_div(self, nd) ==
    LET left == accept(self, nd.left)
        right == accept(left.variables, nd.right)
        l == left.value
        r == right.value
        lines == left.out \o right.out
    IN  IF l.kind = "Number" /\ r.kind = "Number"
        THEN CASE nd.op = "+" -> Ret(Value_Number(FAdd(l.num, r.num)), right.variables, lines)
               [] nd.op = "-" -> Ret(Value_Number(FSub(l.num, r.num)), right.variables, lines)
               [] nd.op = "*" -> Ret(Value_Number(FMul(l.num, r.num)), right.variables, lines)
               [] nd.op = "/" /\ ~IsZero(r.num) ->
                      Ret(Value_Number(FDiv(l.num, r.num)), right.variables, lines)
               [] OTHER -> Ret(Value_None, right.variables,
                               lines \o <<[line |-> "Operacion desconocida", op |-> nd.op]>>)
        ELSE Ret(Value_None, right.variables,
                 lines \o <<[line |-> "Error de tipo en operacion binaria"]>>)

\* visit_bin_op that returns as soon as the left operand is not a Number
visit_bin_op_short_circuit(self, nd) ==
    LET left == accept(self, nd.left)
        right == accept(left.variables, nd.right)
        l == left.value
        r == right.value
        lines == left.out \o right.out
    IN  IF l.kind # "Number"
        THEN Ret(Value_None, left.variables,
                 left.out \o <<[line |-> "Error de tipo en operacion binaria"]>>)
        ELSE IF r.kind = "Number"
        THEN CASE nd.op = "+" -> Ret(Value_Number(FAdd(l.num, r.num)), right.variables, lines)
               [] nd.op = "-" -> Ret(Value_Number(FSub(l.num, r.num)), right.variables, lines)
               [] nd.op = "*" -> Ret(Value_Number(FMul(l.num, r.num)), right.variables, lines)
               [] nd.op = "/" -> Ret(Value_Number(FDiv(l.num, r.num)), right.variables, lines)
               [] OTHER -> Ret(Value_None, right.variables,
                               lines \o <<[line |-> "Operacion desconocida", op |-> nd.op]>>)
        ELSE Ret(Value_None, right.variables,
                 lines \o <<[line |-> "Error de tipo en operacion binaria"]>>)

\* visit_bin_op whose match has no catch-all arm of its own: an operator
\* string that is none of the four falls through to the addition
visit_bin_op_default_add(self, nd) ==
    LET left == accept(self, nd.left)
        right == accept(left.variables, nd.right)
        l == left.value
        r == right.value
        lines == left.out \o right.out
    IN  IF l.kind = "Number" /\ r.kind = "Number"
        THEN CASE nd.op = "-" -> Ret(Value_Number(FSub(l.num, r.num)), right.variables, lines)
               [] nd.op = "*" -> Ret(Value_Number(FMul(l.num, r.num)), right.variables, lines)
               [] nd.op = "/" -> Ret(Value_Number(FDiv(l.num, r.num)), right.variables, lines)
               [] OTHER -> Ret(Value_Number(FAdd(l.num, r.num)), right.variables, lines)
        ELSE Ret(Value_None, right.variables,
                 lines \o <<[line |-> "Error de tipo en operacion binaria"]>>)

visit_bin_op(self, nd) ==
    LET left == accept(self, nd.left)
        right == accept(left.variables, nd.right)
        l == left.value
        r == right.value
        lines == left.out \o right.out
    IN  IF l.kind = "Number" /\ r.kind = "Number"
        THEN CASE nd.op = "+" -> Ret(Value_Number(FAdd(l.num, r.num)), right.variables, lines)
               [] nd.op = "-" -> Ret(Value_Number(FSub(l.num, r.num)), right.variables, lines)
               [] nd.op = "*" -> Ret(Value_Number(FMul(l.num, r.num)), right.variables, lines)
               [] nd.op = "/" -> Ret(Value_Number(FDiv(l.num, r.num)), right.variables, lines)
               [] OTHER -> Ret(Value_None, right.variables,
                               lines \o <<[line |-> "Operacion desconocida", op |-> nd.op]>>)
        ELSE Ret(Value_None, right.variables,
                 lines \o <<[line |-> "Error de tipo en operacion binaria"]>>)

visit_number(self, nd) == Ret(Value_Number(nd.value), self, <<>>)

\* visit_var with the two lookups in the other order: `variables` first
visit_var_shadowed(self, nd) ==
    IF nd.name \in DOMAIN self
    THEN Ret(Value_Number(self[nd.name]), self,
             <<[line |-> "Variable", name |-> nd.name, num |-> self[nd.name]]>>)
    ELSE IF nd.name \in DOMAIN math_constants
    THEN Ret(Value_Number(math_constants[nd.name]), self,
             <<[line |-> "Constante matematica", name |-> nd.name,
                num |-> math_constants[nd.name]]>>)
    ELSE Ret(Value_None, self, <<[line |-> "Variable no definida", name |-> nd.name]>>)

\* visit_var that looks a name up in the constants only
visit_var_no_lookup(self, nd) ==
    IF nd.name \in DOMAIN math_constants
    THEN Ret(Value_Number(math_constants[nd.name]), self,
             <<[line |-> "Constante matematica", name |-> nd.name,
                num |-> math_constants[nd.name]]>>)
    ELSE Ret(Value_None, self, <<[line |-> "Variable no definida", name |-> nd.name]>>)

\* visit_var that creates a binding on a miss (entry(name).or_insert(0.0))
visit_var_default_binding(self, nd) ==
    IF nd.name \in DOMAIN math_constants
    THEN Ret(Value_Number(math_constants[nd.name]), self,
             <<[line |-> "Constante matematica", name |-> nd.name,
                num |-> math_constants[nd.name]]>>)
    ELSE IF nd.name \in DOMAIN self
    THEN Ret(Value_Number(self[nd.name]), self,
             <<[line |-> "Variable", name |-> nd.name, num |-> self[nd.name]]>>)
    ELSE Ret(Value_None, insert(self, nd.name, Zero(1)),
             <<[line |-> "Variable no definida", name |-> nd.name]>>)

\* visit_var that binds an undefined name to 0.0 on its first reference
visit_var_autovivify(self, nd) ==
    IF nd.name \in DOMAIN math_constants
    THEN Ret(Value_Number(math_constants[nd.name]), self,
             <<[line |-> "Constante matematica", name |-> nd.name,
                num |-> math_constants[nd.name]]>>)
    ELSE IF nd.name \in DOMAIN self
    THEN Ret(Value_Number(self[nd.name]), self,
             <<[line |-> "Variable", name |-> nd.name, num |-> self[nd.name]]>>)
    ELSE Ret(Value_None, insert(self, nd.name, F(0)),
             <<[line |-> "Variable no definida", name |-> nd.name]>>)

visit_var(self, nd) ==
    IF nd.name \in DOMAIN math_constants
    THEN Ret(Value_Number(math_constants[nd.name]), self,
             <<[line |-> "Constante matematica", name |-> nd.name,
                num |-> math_constants[nd.name]]>>)
    ELSE IF nd.name \in DOMAIN self
    THEN Ret(Value_Number(self[nd.name]), self,
             <<[line |-> "Variable", name |-> nd.name, num |-> self[nd.name]]>>)
    ELSE Ret(Value_None, self, <<[line |-> "Variable no definida", name |-> nd.name]>>)

\* visit_assign that binds the name to 0.0 when expr is not a Number
visit_assign_binds_on_failure(self, nd) ==
    LET val == accept(self, nd.expr)
    IN  IF val.value.kind = "Number"
        THEN Ret(Value_Number(val.value.num),
                 insert(val.variables, nd.name, val.value.num),
                 val.out \o <<[line |-> "Asignando", name |-> nd.name,
                               num |-> val.value.num]>>)
        ELSE Ret(Value_None, insert(val.variables, nd.name, Zero(1)),
                 val.out \o <<[line |-> "Asignacion fallida", name |-> nd.name]>>)

\* visit_assign that keeps a prior binding (entry(name).or_insert(num))
visit_assign_keep_old(self, nd) ==
    LET val == accept(self, nd.expr)
    IN  IF val.value.kind = "Number"
        THEN Ret(Value_Number(val.value.num),
                 IF nd.name \in DOMAIN val.variables THEN val.variables
                 ELSE insert(val.variables, nd.name, val.value.num),
                 val.out \o <<[line |-> "Asignando", name |-> nd.name,
                               num |-> val.value.num]>>)
        ELSE Ret(Value_None, val.variables,
                 val.out \o <<[line |-> "Asignacion fallida", name |-> nd.name]>>)

\* visit_assign that refuses a builtin constant's name
visit_assign_protects_constants(self, nd) ==
    LET val == accept(self, nd.expr)
    IN  IF val.value.kind = "Number" /\ nd.name \notin {"PI", "E"}
        THEN Ret(Value_Number(val.value.num),
                 insert(val.variables, nd.name, val.value.num),
                 val.out \o <<[line |-> "Asignando", name |-> nd.name,
                               num |-> val.value.num]>>)
        ELSE Ret(Value_None, val.variables,
                 val.out \o <<[line |-> "Asignacion fallida", name |-> nd.name]>>)

\* visit_assign that evaluates expr a second time to obtain the value to bind
visit_assign_twice(self, nd) ==
    LET first == accept(self, nd.expr)
        val == accept(first.variables, nd.expr)
    IN  IF val.value.kind = "Number"
        THEN Ret(Value_Number(val.value.num),
                 insert(val.variables, nd.name, val.value.num),
                 first.out \o val.out \o <<[line |-> "Asignando", name |-> nd.name,
                                            num |-> val.value.num]>>)
        ELSE Ret(Value_None, val.variables,
                 first.out \o val.out \o <<[line |-> "Asignacion fallida", name |-> nd.name]>>)

visit_assign(self, nd) ==
    LET val == accept(self, nd.expr)
    IN  IF val.value.kind = "Number"
        THEN Ret(Value_Number(val.value.num),
                 insert(val.variables, nd.name, val.value.num),
                 val.out \o <<[line |-> "Asignando", name |-> nd.name,
                               num |-> val.value.num]>>)
        ELSE Ret(Value_None, val.variables,
                 val.out \o <<[line |-> "Asignacion fallida", name |-> nd.name]>>)

visit_string_literal(self, nd) ==
    Ret(Value_String(nd.text), self, <<[line |-> "Cadena", text |-> nd.text]>>)

\* the argument loop run from the last argument to the first
\* (for arg in node.args.iter().rev())
RECURSIVE accept_args_reversed(_, _, _)
accept_args_reversed(self, args, i) ==
    IF i > Len(args) THEN Ret(Value_None, self, <<>>)
    ELSE LET arg == accept(self, args[Len(args) + 1 - i])
             rest == accept_args_reversed(arg.variables, args, i + 1)
         IN  Ret(Value_None, rest.variables, arg.out \o rest.out)

\* for arg in &node.args { arg.accept(self); }, from the i-th argument on:
\* the map left and the lines written
RECURSIVE accept_args(_, _, _)
accept_args(self, args, i) ==
    IF i > Len(args) THEN Ret(Value_None, self, <<>>)
    ELSE LET arg == accept(self, args[i])
             rest == accept_args(arg.variables, args, i + 1)
         IN  Ret(Value_None, rest.variables, arg.out \o rest.out)

\* visit_function_call that evaluates the arguments before it checks their
\* number
visit_function_call_args_first(self, nd) ==
    LET call == <<[line |-> "Llamada a funcion", name |-> nd.name, nargs |-> Len(nd.args)]>>
        rest == accept_args(self, nd.args, 1)
    IN  IF nd.name \in math_functions
        THEN IF Len(nd.args) # 1
             THEN Ret(Value_None, rest.variables,
                      call \o <<[line |-> "Error: requiere exactamente 1 argumento",
                                 name |-> nd.name]>>)
             ELSE LET arg == accept(self, nd.args[1])
                  IN  IF arg.value.kind = "Number"
                      THEN LET res == math_func(nd.name, arg.value.num)
                           IN  Ret(Value_Number(res), arg.variables,
                                   call \o arg.out \o
                                   <<[line |-> "Resultado", name |-> nd.name, num |-> res]>>)
                      ELSE Ret(Value_None, arg.variables,
                               call \o arg.out \o
                               <<[line |-> "Error: argumento debe ser un numero",
                                  name |-> nd.name]>>)
        ELSE Ret(Value_None, rest.variables, call \o rest.out)

\* visit_function_call that treats a NaN result as a failure of the call
visit_function_call_nan_is_none(self, nd) ==
    LET call == <<[line |-> "Llamada a funcion", name |-> nd.name, nargs |-> Len(nd.args)]>>
    IN  IF nd.name \in math_functions
        THEN IF Len(nd.args) # 1
             THEN Ret(Value_None, self,
                      call \o <<[line |-> "Error: requiere exactamente 1 argumento",
                                 name |-> nd.name]>>)
             ELSE LET arg == accept(self, nd.args[1])
                  IN  IF arg.value.kind = "Number"
                      THEN LET res == math_func(nd.name, arg.value.num)
                           IN  Ret(IF res = NaN THEN Value_None ELSE Value_Number(res),
                                   arg.variables,
                                   call \o arg.out \o
                                   <<[line |-> "Resultado", name |-> nd.name, num |-> res]>>)
                      ELSE Ret(Value_None, arg.variables,
                               call \o arg.out \o
                               <<[line |-> "Error: argumento debe ser un numero",
                                  name |-> nd.name]>>)
        ELSE LET rest == accept_args(self, nd.args, 1)
             IN  Ret(Value_None, rest.variables, call \o rest.out)

\* visit_function_call that restores the map when the argument is no Number
visit_function_call_rolls_back(self, nd) ==
    LET call == <<[line |-> "Llamada a funcion", name |-> nd.name, nargs |-> Len(nd.args)]>>
    IN  IF nd.name \in math_functions
        THEN IF Len(nd.args) # 1
             THEN Ret(Value_None, self,
                      call \o <<[line |-> "Error: requiere exactamente 1 argumento",
                                 name |-> nd.name]>>)
             ELSE LET arg == accept(self, nd.args[1])
                  IN  IF arg.value.kind = "Number"
                      THEN LET res == math_func(nd.name, arg.value.num)
                           IN  Ret(Value_Number(res), arg.variables,
                                   call \o arg.out \o
                                   <<[line |-> "Resultado", name |-> nd.name, num |-> res]>>)
                      ELSE Ret(Value_None, self,
                               call \o arg.out \o
                               <<[line |-> "Error: argumento debe ser un numero",
                                  name |-> nd.name]>>)
        ELSE LET rest == accept_args(self, nd.args, 1)
             IN  Ret(Value_None, rest.variables, call \o rest.out)

visit_function_call(self, nd) ==
    LET call == <<[line |-> "Llamada a funcion", name |-> nd.name, nargs |-> Len(nd.args)]>>
    IN  IF nd.name \in math_functions
        THEN IF Len(nd.args) # 1
             THEN Ret(Value_None, self,
                      call \o <<[line |-> "Error: requiere exactamente 1 argumento",
                                 name |-> nd.name]>>)
             ELSE LET arg == accept(self, nd.args[1])
                  IN  IF arg.value.kind = "Number"
                      THEN LET res == math_func(nd.name, arg.value.num)
                           IN  Ret(Value_Number(res), arg.variables,
                                   call \o arg.out \o
                                   <<[line |-> "Resultado", name |-> nd.name, num |-> res]>>)
                      ELSE Ret(Value_None, arg.variables,
                               call \o arg.out \o
                               <<[line |-> "Error: argumento debe ser un numero",
                                  name |-> nd.name]>>)
        ELSE LET rest == accept_args(self, nd.args, 1)
             IN  Ret(Value_None, rest.variables, call \o rest.out)

\* visit_comment that returns the comment's text
visit_comment_echo(self, nd) ==
    Ret(Value_String(nd.text), self, <<[line |-> "Comentario", text |-> nd.text]>>)

visit_comment(self, nd) ==
    Ret(Value_None, self, <<[line |-> "Comentario", text |-> nd.text]>>)

\* Node::accept: each node shape routes to its visit method
accept(self, nd) ==
    CASE nd.kind = "EvalMathExp" -> visit_eval_math_exp(self, nd)
      [] nd.kind = "BinOp" -> visit_bin_op(self, nd)
      [] nd.kind = "Number" -> visit_number(self, nd)
      [] nd.kind = "Var" -> visit_var(self, nd)
      [] nd.kind = "Assign" -> visit_assign(self, nd)
      [] nd.kind = "StringLiteral" -> visit_string_literal(self, nd)
      [] nd.kind = "FunctionCall" -> visit_function_call(self, nd)
      [] nd.kind = "Comment" -> visit_comment(self, nd)

(***************************************************************************)
(* The trees handed to accept.                                             *)
(***************************************************************************)
\* names assigned to: two ordinary names and a builtin constant's name
Names == {"x", "y", "PI"}

\* the operator strings the tokenizer emits (tokenizer/mod.rs:34)
Ops == {"+", "-", "*", "/", "%", "^"}

\* two builtin functions and a name that is in no table
FnNames == {"sqrt", "abs", "unknown_fn"}

Literals == {Number(F(i)) : i \in 0..MaxLit}

Atoms ==
    Literals \cup {StringLiteral("s"), Comment("c"), EvalMathExp("1 + 1")}
             \cup {Var(v) : v \in Names \cup {"E"}}

\* subtrees with an effect: assignments that succeed, one that fails, and a
\* call that yields None after binding y
Inner ==
    {Assign(v, Number(F(1))) : v \in Names}
        \cup {Assign("x", StringLiteral("s")),
              FunctionCall("unknown_fn", <<Assign("y", Number(F(1)))>>)}

BinOperands ==
    Literals \cup {StringLiteral("s"), Var("x"), Var("PI"),
                   Assign("x", Number(F(1))), Assign("PI", Number(F(1)))}

AssignExprs ==
    Atoms \cup Inner
          \cup {BinOp(a, op, b) : a \in {Number(F(1)), Var("x")},
                                  op \in {"+", "/", "%"},
                                  b \in {Number(F(1)), Var("x")}}

CallArgs ==
    {Number(F(1)), Var("x"), Assign("x", Number(F(1))), Assign("y", StringLiteral("s")),
     FunctionCall("unknown_fn", <<Assign("y", Number(F(1)))>>)}

\* the one argument of a call of a builtin function: numbers at which the
\* functions are fractions (0, 1, E, PI/2), a negative number, and non-Numbers
MathArgs ==
    Literals \cup {Var("E"), Var("x"), StringLiteral("s"),
                   BinOp(Number(F(0)), "-", Number(F(1))),
                   BinOp(Var("PI"), "/", Number(F(2)))}

RECURSIVE SeqsUpTo(_, _)
SeqsUpTo(S, len) ==
    IF len = 0 THEN {<<>>}
    ELSE LET shorter == SeqsUpTo(S, len - 1)
         IN  shorter \cup {Append(q, e) : q \in {t \in shorter : Len(t) = len - 1}, e \in S}

\* the numbers the model lets `variables` hold: the literals and the constants
Stored(self) ==
    \A v \in DOMAIN self :
        \/ self[v] \in {MathPI, MathE}
        \/ self[v].k = "fin" /\ self[v].s = 1 /\ self[v].d = 1 /\ self[v].n <= MaxLit

\* no builtin returned a value outside the fractions
Exact(lines) == \A i \in 1..Len(lines) : lines[i].line = "Resultado" => lines[i].num.k # "unrep"

EmptyMap == [v \in {} |-> NaN]

(***************************************************************************)
(* The state machine: Interpreter::new(), then any sequence of             *)
(* tree.accept(&mut interpreter) calls by a caller that is either between  *)
(* two calls (pc = "idle") or holds the Value of the call that has just    *)
(* returned (pc = "returned").                                             *)
(***************************************************************************)
NoCall == [kind |-> "new"]

\* Interpreter::new() of the second Interpreter
NewPeer ==
    [variables |-> EmptyMap, before |-> EmptyMap, node |-> NoCall, result |-> Value_None,
     pc |-> "idle"]

\* no function of the math module has been called
NoRequest == [fn |-> "none"]

Init ==
    /\ variables = EmptyMap
    /\ before = EmptyMap
    /\ node = NoCall
    /\ result = Value_None
    /\ out = <<>>
    /\ pc = "idle"
    /\ chars = <<>>
    /\ pos = 0
    /\ tokens = <<>>
    /\ lexpc = "idle"
    /\ peer = NewPeer
    /\ request = NoRequest
    /\ reply = NoRequest
    /\ stdin = <<>>
    /\ input = <<>>
    /\ printed = <<>>
    /\ replpc = "idle"

\* nd.accept(&mut interpreter)
Evaluate(nd) ==
    LET r == accept(variables, nd)
    IN  /\ Exact(r.out)
        /\ Stored(r.variables)
        /\ variables' = r.variables
        /\ before' = variables
        /\ node' = nd
        /\ result' = r.value
        /\ out' = r.out
        /\ UNCHANGED <<lexVars, peer, archVars, replVars>>

\* the caller makes its next accept call
Calling == pc = "idle" /\ pc' = "returned"

AcceptNumber ==
    /\ Calling
    /\ \E nd \in Literals : Evaluate(nd)

AcceptStringLiteral ==
    /\ Calling
    /\ Evaluate(StringLiteral("s"))

AcceptComment ==
    /\ Calling
    /\ Evaluate(Comment("c"))

AcceptEvalMathExp ==
    /\ Calling
    /\ Evaluate(EvalMathExp("1 + 1"))

AcceptVar ==
    /\ Calling
    /\ \E v \in Names \cup {"E"} : Evaluate(Var(v))

AcceptAssign ==
    /\ Calling
    /\ \E v \in Names, e \in AssignExprs : Evaluate(Assign(v, e))

AcceptBinOp ==
    /\ Calling
    /\ \E l \in BinOperands, op \in Ops, r \in BinOperands : Evaluate(BinOp(l, op, r))

AcceptFunctionCall ==
    /\ Calling
    /\ \E f \in FnNames, args \in SeqsUpTo(CallArgs, MaxArgs) :
           Evaluate(FunctionCall(f, args))

AcceptMathCall ==
    /\ Calling
    /\ \E f \in math_functions, arg \in MathArgs : Evaluate(FunctionCall(f, <<arg>>))

\* the caller is done with the returned Value; the Interpreter lives on
Return ==
    /\ pc = "returned"
    /\ pc' = "idle"
    /\ before' = variables
    /\ node' = NoCall
    /\ result' = Value_None
    /\ out' = <<>>
    /\ UNCHANGED <<variables, lexVars, peer, archVars, replVars>>

Next ==
    \/ AcceptNumber
    \/ AcceptStringLiteral
    \/ AcceptComment
    \/ AcceptEvalMathExp
    \/ AcceptVar
    \/ AcceptAssign
    \/ AcceptBinOp
    \/ AcceptFunctionCall
    \/ AcceptMathCall
    \/ Return

Spec == Init /\ [][Next]_vars

(***************************************************************************)
(* A script of back-to-back statements, as the tests write them            *)
(* (tests/mod.rs:17-22): assignments of a literal and variable references, *)
(* each evaluated immediately after the one before.                        *)
(***************************************************************************)
ScriptAssign == \E v \in Names, e \in Literals : Evaluate(Assign(v, e)) /\ UNCHANGED pc

ScriptVar == \E v \in Names \cup {"E"} : Evaluate(Var(v)) /\ UNCHANGED pc

ScriptNext == ScriptAssign \/ ScriptVar

ScriptSpec == Init /\ [][ScriptNext]_vars

(***************************************************************************)
(* tokenize (src/src/tokenizer/mod.rs).  The input is the Vec<char> of the *)
(* source; positions are 0-based as in the code.  One action per arm of    *)
(* the match, each a whole iteration of the while loop.                    *)
(***************************************************************************)
\* Token::Var and Token::Assign
Token(type) == [type |-> type]

\* Token::Identifier, StringLiteral, Operator and Unknown, which hold a String
Token_String(type, text) == [type |-> type, text |-> text]

Token_Number(num) == [type |-> "Number", num |-> num]

\* char::is_whitespace, on the characters of the inputs
is_whitespace(c) == c \in {" ", "\t", "\n", "\r"}

DigitValue ==
    ("0" :> 0) @@ ("1" :> 1) @@ ("2" :> 2) @@ ("3" :> 3) @@ ("4" :> 4) @@
    ("5" :> 5) @@ ("6" :> 6) @@ ("7" :> 7) @@ ("8" :> 8) @@ ("9" :> 9)

is_ascii_digit(c) == c \in DOMAIN DigitValue

is_ascii_alphabetic(c) ==
    c \in {"a", "b", "c", "d", "e", "f", "g", "h", "i", "j", "k", "l", "m", "n", "o", "p",
           "q", "r", "s", "t", "u", "v", "w", "x", "y", "z",
           "A", "B", "C", "D", "E", "F", "G", "H", "I", "J", "K", "L", "M", "N", "O", "P",
           "Q", "R", "S", "T", "U", "V", "W", "X", "Y", "Z"}

is_ascii_alphanumeric(c) == is_ascii_alphabetic(c) \/ is_ascii_digit(c)

OperatorChars == {"+", "-", "*", "/", "%", "^"}

\* chars[p]
At(cs, p) == cs[p + 1]

\* chars[start..end].iter().collect()
Slice(cs, start, end) == SubSeq(cs, start + 1, end)

\* the decimal value of a run of digits
RECURSIVE Decimal(_)
Decimal(run) ==
    IF run = <<>> THEN 0
    ELSE 10 * Decimal(SubSeq(run, 1, Len(run) - 1)) + DigitValue[run[Len(run)]]

RECURSIVE Pow10(_)
Pow10(k) == IF k = 0 THEN 1 ELSE 10 * Pow10(k - 1)

\* a parse that stops at the second '.' and returns the number before it
parse_f64_prefix(run) ==
    LET dots == {i \in 1..Len(run) : run[i] = "."}
        first == IF dots = {} THEN Len(run) + 1 ELSE CHOOSE i \in dots : \A j \in dots : i <= j
    IN  [ok |-> TRUE, num |-> F(Decimal(SubSeq(run, 1, first - 1)))]

\* number_str.parse::<f64>() of a run of digits and '.' that starts with a
\* digit: Ok unless the run has more than one '.'
parse_f64(run) ==
    LET dots == {i \in 1..Len(run) : run[i] = "."}
    IN  IF Cardinality(dots) > 1 THEN [ok |-> FALSE]
        ELSE IF dots = {} THEN [ok |-> TRUE, num |-> F(Decimal(run))]
        ELSE LET dot == CHOOSE i \in dots : TRUE
                 whole == SubSeq(run, 1, dot - 1)
                 frac == SubSeq(run, dot + 1, Len(run))
             IN  [ok |-> TRUE,
                  num |-> Fin(1, Decimal(whole) * Pow10(Len(frac)) + Decimal(frac),
                              Pow10(Len(frac)))]

\* while pos < chars.len() && chars[pos] != '"' { pos += 1; }
RECURSIVE scan_string(_, _)
scan_string(cs, p) ==
    IF p < Len(cs) /\ At(cs, p) # "\"" THEN scan_string(cs, p + 1) ELSE p

\* while pos < chars.len() && (chars[pos].is_ascii_digit() || chars[pos] == '.')
RECURSIVE scan_number(_, _)
scan_number(cs, p) ==
    IF p < Len(cs) /\ (is_ascii_digit(At(cs, p)) \/ At(cs, p) = ".")
    THEN scan_number(cs, p + 1) ELSE p

\* the identifier loop without its `|| chars[pos] == '_'`
RECURSIVE scan_identifier_no_underscore(_, _)
scan_identifier_no_underscore(cs, p) ==
    IF p < Len(cs) /\ is_ascii_alphanumeric(At(cs, p))
    THEN scan_identifier_no_underscore(cs, p + 1) ELSE p

\* while pos < chars.len() && (chars[pos].is_ascii_alphanumeric() || chars[pos] == '_')
RECURSIVE scan_identifier(_, _)
scan_identifier(cs, p) ==
    IF p < Len(cs) /\ (is_ascii_alphanumeric(At(cs, p)) \/ At(cs, p) = "_")
    THEN scan_identifier(cs, p + 1) ELSE p

\* the guard of the assignment arm without its look at chars[pos + 1]
AssignGuard_any_colon(cs, p) == At(cs, p) = ":"

\* ':' if pos + 1 < chars.len() && chars[pos + 1] == '='
AssignGuard(cs, p) == At(cs, p) = ":" /\ p + 1 < Len(cs) /\ At(cs, p + 1) = "="

\* the indices at which the iteration that starts at p reads chars
reads(cs, p) ==
    LET c == At(cs, p)
    IN  {p} \cup
        IF is_whitespace(c) THEN {}
        ELSE IF c = ":" THEN {i \in {p + 1} : p + 1 < Len(cs)}
        ELSE IF c \in OperatorChars THEN {}
        ELSE IF c = "\"" THEN {i \in (p + 1)..scan_string(cs, p + 1) : i < Len(cs)}
        ELSE IF is_ascii_digit(c) THEN {i \in p..scan_number(cs, p) : i < Len(cs)}
        ELSE IF is_ascii_alphabetic(c) THEN {i \in p..scan_identifier(cs, p) : i < Len(cs)}
        ELSE {}

\* the characters the inputs are made of: one or two of each class the match
\* distinguishes
LexAlphabet == {" ", ":", "=", "+", "\"", "3", ".", "a", "_", "#"}

\* every input of up to LexMaxLen characters, the statement `var x := 3 + 4`
\* and inputs with the keyword, with names that contain it, with a letter
\* outside ASCII, and with braces and comment marks
LexInputs ==
    UNION {[1..n -> LexAlphabet] : n \in 0..LexMaxLen}
    \cup {<<"v", "a", "r", " ", "x", " ", ":", "=", " ", "3", " ", "+", " ", "4">>,
          <<"v", "a", "r">>,
          <<"v", "a", "r", "_">>,
          <<"v", "a">>,
          <<" ", "v", "a", "r", "\t", "v", "a", "r", "1", "\n">>,
          <<"v", "a", "r", "i", "a", "b", "l", "e">>,
          <<"v", "a", "r", "_", "1">>,
          <<"V", "a", "r">>,
          <<"v", "a", "r", "+", "_", "v", "a", "r">>,
          <<"a", "ñ", "o">>,
          <<"{", "#", "}", "/", "/", "a", ":">>}

\* tokenize(source) has been called and is about to test the loop condition
LexInit ==
    /\ chars \in LexInputs
    /\ pos = 0
    /\ tokens = <<>>
    /\ lexpc = "loop"
    /\ variables = EmptyMap
    /\ before = EmptyMap
    /\ node = NoCall
    /\ result = Value_None
    /\ out = <<>>
    /\ pc = "idle"
    /\ peer = NewPeer
    /\ request = NoRequest
    /\ reply = NoRequest
    /\ stdin = <<>>
    /\ input = <<>>
    /\ printed = <<>>
    /\ replpc = "idle"

\* while pos < chars.len()
Looping == lexpc = "loop" /\ pos < Len(chars)

\* what one iteration leaves: the cursor and the tokens
Iterate(p, ts) ==
    /\ pos' = p
    /\ tokens' = ts
    /\ UNCHANGED <<chars, lexpc, interpVars, peer, archVars, replVars>>

LexWhitespace ==
    /\ Looping
    /\ is_whitespace(At(chars, pos))
    /\ Iterate(pos + 1, tokens)

LexAssign ==
    /\ Looping
    /\ ~is_whitespace(At(chars, pos))
    /\ AssignGuard(chars, pos)
    /\ Iterate(pos + 2, Append(tokens, Token("Assign")))

LexOperator ==
    /\ Looping
    /\ At(chars, pos) \in OperatorChars
    /\ Iterate(pos + 1, Append(tokens, Token_String("Operator", <<At(chars, pos)>>)))

\* the string arm with the literal taken from the opening quote on
LexStringLiteral_from_quote ==
    /\ Looping
    /\ At(chars, pos) = "\""
    /\ LET start == pos + 1
           end == scan_string(chars, start)
       IN  Iterate(end + 1,
                   Append(tokens, Token_String("StringLiteral", Slice(chars, pos, end))))

LexStringLiteral ==
    /\ Looping
    /\ At(chars, pos) = "\""
    /\ LET start == pos + 1
           end == scan_string(chars, start)
       IN  Iterate(end + 1,
                   Append(tokens, Token_String("StringLiteral", Slice(chars, start, end))))

LexNumber ==
    /\ Looping
    /\ is_ascii_digit(At(chars, pos))
    /\ LET end == scan_number(chars, pos)
           number_str == Slice(chars, pos, end)
           parsed == parse_f64(number_str)
       IN  Iterate(end, Append(tokens, IF parsed.ok THEN Token_Number(parsed.num)
                                       ELSE Token_String("Unknown", number_str)))

\* the identifier arm without the match on "var"
LexIdentifier_no_keyword ==
    /\ Looping
    /\ is_ascii_alphabetic(At(chars, pos))
    /\ LET end == scan_identifier(chars, pos)
       IN  Iterate(end, Append(tokens, Token_String("Identifier", Slice(chars, pos, end))))

LexIdentifier ==
    /\ Looping
    /\ is_ascii_alphabetic(At(chars, pos))
    /\ LET end == scan_identifier(chars, pos)
           ident == Slice(chars, pos, end)
       IN  Iterate(end, Append(tokens, IF ident = <<"v", "a", "r">> THEN Token("Var")
                                       ELSE Token_String("Identifier", ident)))

\* the last arm without its pos += 1
LexUnknown_no_advance ==
    /\ Looping
    /\ ~is_whitespace(At(chars, pos))
    /\ ~AssignGuard(chars, pos)
    /\ At(chars, pos) \notin OperatorChars \cup {"\""}
    /\ ~is_ascii_digit(At(chars, pos))
    /\ ~is_ascii_alphabetic(At(chars, pos))
    /\ Iterate(pos, Append(tokens, Token_String("Unknown", <<At(chars, pos)>>)))

LexUnknown ==
    /\ Looping
    /\ ~is_whitespace(At(chars, pos))
    /\ ~AssignGuard(chars, pos)
    /\ At(chars, pos) \notin OperatorChars \cup {"\""}
    /\ ~is_ascii_digit(At(chars, pos))
    /\ ~is_ascii_alphabetic(At(chars, pos))
    /\ Iterate(pos + 1, Append(tokens, Token_String("Unknown", <<At(chars, pos)>>)))

\* the loop condition fails: tokenize returns tokens
LexReturn ==
    /\ lexpc = "loop"
    /\ ~(pos < Len(chars))
    /\ lexpc' = "done"
    /\ UNCHANGED <<chars, pos, tokens, interpVars, peer, archVars, replVars>>

LexNext ==
    \/ LexWhitespace
    \/ LexAssign
    \/ LexOperator
    \/ LexStringLiteral
    \/ LexNumber
    \/ LexIdentifier
    \/ LexUnknown
    \/ LexReturn

LexSpec == LexInit /\ [][LexNext]_vars

\* the loop is sequential code: an iteration that can run does run
LexLive == LexSpec /\ WF_vars(LexNext)

(***************************************************************************)
(* Two Interpreters, each from its own Interpreter::new(), used by two     *)
(* callers whose calls and returns interleave in any order.  The first is  *)
(* the Interpreter of Spec; the second is `peer`.                          *)
(***************************************************************************)
\* one `variables` map for every Interpreter (a static)
variables_of_shared(i) == variables

\* the `variables` field of Interpreter i
variables_of(i) == IF i = 1 THEN variables ELSE peer.variables

\* the trees the two callers evaluate: assignments of a literal, references
\* to a variable and to the constants, and a builtin call on a variable
PairTrees ==
    {Assign(v, Number(F(i))) : v \in {"x", "PI"}, i \in 1..2}
        \cup {Var(v) : v \in {"x", "PI", "E"}}
        \cup {FunctionCall("sqrt", <<Var("x")>>)}

\* nd.accept(&mut second)
PeerEvaluate(nd) ==
    LET r == accept(variables_of(2), nd)
    IN  /\ Exact(r.out)
        /\ Stored(r.variables)
        /\ peer' = [variables |-> r.variables, before |-> peer.variables, node |-> nd,
                    result |-> r.value, pc |-> "returned"]
        /\ UNCHANGED <<interpVars, lexVars, archVars, replVars>>

FirstAccept ==
    /\ Calling
    /\ \E nd \in PairTrees : Evaluate(nd)

PeerAccept ==
    /\ peer.pc = "idle"
    /\ \E nd \in PairTrees : PeerEvaluate(nd)

PeerReturn ==
    /\ peer.pc = "returned"
    /\ peer' = [NewPeer EXCEPT !.variables = peer.variables, !.before = peer.variables]
    /\ UNCHANGED <<interpVars, lexVars, archVars, replVars>>

PairNext == FirstAccept \/ Return \/ PeerAccept \/ PeerReturn

PairSpec == Init /\ [][PairNext]_vars

(***************************************************************************)
(* The architectural calculations of MathModule and                       *)
(* calc_architecture_command (src/src/math/mod.rs).  A String is the       *)
(* sequence of its words and punctuation marks; a number formatted into    *)
(* it is the number rounded to the digits of the format.  Result<T, E> is  *)
(* Ok(v) or Err(e), Option<T> is Option_Some(v) or Option_None; Try(r, f)  *)
(* is the ? operator: the value of an Ok goes on to f, an Err is returned. *)
(***************************************************************************)
\* a finite f64 above u32::MAX, such as u32::MAX as f64 + 1.0: the integers
\* of the model end below it
Huge == [k |-> "huge", s |-> 1, n |-> 0, d |-> 0]

\* l == r
FEq(a, b) ==
    IF a.k \in {"nan", "unrep"} \/ b.k \in {"nan", "unrep"} THEN FALSE
    ELSE IF a.k = "inf" \/ b.k = "inf" THEN a.k = b.k /\ a.s = b.s
    ELSE a.k = b.k /\ a.s * a.n * b.d = b.s * b.n * a.d

\* l <= r
FLe(a, b) == FLt(a, b) \/ FEq(a, b)

\* l > r
FGt(a, b) == FLt(b, a)

\* l >= r
FGe(a, b) == FLe(b, a)

\* x > f64::EPSILON: EPSILON is 2^-52, below every positive fraction n/d of
\* the model and above every fraction of 2^-200
GtEpsilon(x) == x.k # "tiny" /\ FGt(x, Zero(1))

\* x.abs() < f64::EPSILON
AbsLtEpsilon(x) == IsZero(x) \/ x.k = "tiny"

Ok(v) == [ok |-> TRUE, val |-> v]

Err(e) == [ok |-> FALSE, err |-> e]

Option_Some(v) == [some |-> TRUE, val |-> v]

Option_None == [some |-> FALSE]

Word(w) == [w |-> w]

Words(ws) == [i \in DOMAIN ws |-> Word(ws[i])]

\* {:.digits}: x rounded to `digits` decimals, ties to even
Fmt(x, digits) ==
    IF x.k = "tiny" THEN [num |-> Zero(x.s), digits |-> digits]
    ELSE IF x.k # "fin" THEN [num |-> x, digits |-> digits]
    ELSE LET scaled == x.n * Pow10(digits)
             q == scaled \div x.d
             r == scaled % x.d
             up == 2 * r > x.d \/ (2 * r = x.d /\ q % 2 = 1)
         IN  [num |-> Fin(x.s, IF up THEN q + 1 ELSE q, Pow10(digits)), digits |-> digits]

\* `value as u32` of a value in 0 ..= u32::MAX is its integer part
safe_f64_to_u32(value, parameter_name) ==
    IF \/ value.k = "nan"
       \/ value.k = "inf"
       \/ (value.k \in {"fin", "tiny"} /\ FLt(value, Zero(1)))
       \/ value.k = "huge"
    THEN Err(parameter_name \o
             Words(<<"cannot", "be", "NaN", ",", "infinite", ",", "negative", "or",
                     "exceeds", "maximum", "value">>))
    ELSE Ok(IF value.k = "tiny" THEN 0 ELSE value.n \div value.d)

validate_building_parameters(building_length_a, building_width_b, building_height, num_floors) ==
    IF FLe(building_length_a, Zero(1))
    THEN Err(Words(<<"Building", "length", "must", "be", "positive">>))
    ELSE IF FLe(building_width_b, Zero(1))
    THEN Err(Words(<<"Building", "width", "must", "be", "positive">>))
    ELSE IF FLe(building_height, Zero(1))
    THEN Err(Words(<<"Building", "height", "must", "be", "positive">>))
    ELSE IF num_floors = 0
    THEN Err(Words(<<"Number", "of", "floors", "must", "be", "at", "least", "1">>))
    ELSE IF FLt(building_length_a, Fin(1, 1, 10)) \/ FLt(building_width_b, Fin(1, 1, 10))
    THEN Err(Words(<<"Building", "dimensions", "must", "be", "at", "least", "0", ".", "1",
                     "meters">>))
    ELSE IF \/ FGt(building_length_a, F(10000))
            \/ FGt(building_width_b, F(10000))
            \/ FGt(building_height, F(10000))
    THEN Err(Words(<<"Building", "dimensions", "exceed", "maximum", "allowed", "values",
                     "(", "10", ",", "000", "m", ")">>))
    ELSE Ok(TRUE)

validate_wind_parameters(wind_load_per_sqm, wind_force_height, building_height) ==
    IF FLe(wind_load_per_sqm, Zero(1))
    THEN Err(Words(<<"Wind", "load", "per", "square", "meter", "must", "be", "positive">>))
    ELSE IF FLe(wind_force_height, Zero(1)) \/ FGt(wind_force_height, building_height)
    THEN Err(Words(<<"Wind", "force", "height", "must", "be", "positive", "and", "not",
                     "exceed", "building", "height">>))
    ELSE Ok(TRUE)

validate_calculation_result(value, calculation_name) ==
    IF value.k \in {"inf", "nan"}
    THEN Err(calculation_name \o
             Words(<<"resulted", "in", "invalid", "value", "(", "overflow", "or", "NaN",
                     ")">>))
    ELSE Ok(TRUE)

calculate_center_to_corner_distance(building_length_a, building_width_b) ==
    LET half_a == FDiv(building_length_a, F(2))
        half_b == FDiv(building_width_b, F(2))
        center_to_corner_distance ==
            MathModule_sqrt(FAdd(FMul(half_a, half_a), FMul(half_b, half_b)))
        valid == validate_calculation_result(
                     center_to_corner_distance,
                     Words(<<"Center", "to", "corner", "distance", "calculation">>))
    IN  IF ~valid.ok THEN valid
        ELSE IF FEq(center_to_corner_distance, Zero(1))
        THEN Err(Words(<<"Center", "to", "corner", "distance", "cannot", "be", "zero">>))
        ELSE Ok(center_to_corner_distance)

\* the result with the criterion Me/Mv > 3
StabilityResult_strict(resisting_moment, overturning_moment, stability_ratio) ==
    LET is_stable == FGt(stability_ratio, F(3))
        safety_margin == FSub(stability_ratio, F(3))
        valid == validate_calculation_result(
                     safety_margin, Words(<<"Safety", "margin", "calculation">>))
    IN  IF ~valid.ok THEN valid
        ELSE Ok([resisting_moment |-> resisting_moment,
                 overturning_moment |-> overturning_moment,
                 stability_ratio |-> stability_ratio,
                 is_stable |-> is_stable,
                 safety_margin |-> safety_margin])

\* the end of verify_building_stability: the criterion, the margin and the
\* StabilityResult
StabilityResult(resisting_moment, overturning_moment, stability_ratio) ==
    LET is_stable == FGe(stability_ratio, F(3))
        safety_margin == FSub(stability_ratio, F(3))
        valid == validate_calculation_result(
                     safety_margin, Words(<<"Safety", "margin", "calculation">>))
    IN  IF ~valid.ok THEN valid
        ELSE Ok([resisting_moment |-> resisting_moment,
                 overturning_moment |-> overturning_moment,
                 stability_ratio |-> stability_ratio,
                 is_stable |-> is_stable,
                 safety_margin |-> safety_margin])

\* the ratio block refusing the moment -0.0 as negative
stability_ratio_of_signed_zero(resisting_moment, overturning_moment) ==
    IF GtEpsilon(overturning_moment)
    THEN LET ratio == FDiv(resisting_moment, overturning_moment)
         IN  IF ratio.k \in {"inf", "nan"}
             THEN Err(Words(<<"Stability", "ratio", "calculation", "resulted", "in",
                             "invalid", "value">>))
             ELSE Ok(ratio)
    ELSE IF IsZero(overturning_moment) /\ overturning_moment.s = -1
    THEN Err(Words(<<"Negative", "overturning", "moment", "is", "physically",
                             "impossible">>))
    ELSE Ok(F(1000000))

\* the stability ratio, with its protection against a zero or negative
\* overturning moment
stability_ratio_of(resisting_moment, overturning_moment) ==
    IF GtEpsilon(overturning_moment)
    THEN LET ratio == FDiv(resisting_moment, overturning_moment)
         IN  IF ratio.k \in {"inf", "nan"}
             THEN Err(Words(<<"Stability", "ratio", "calculation", "resulted", "in",
                             "invalid", "value">>))
             ELSE Ok(ratio)
    ELSE IF AbsLtEpsilon(overturning_moment)
    THEN Ok(F(1000000))
    ELSE Err(Words(<<"Negative", "overturning", "moment", "is", "physically",
                             "impossible">>))

verify_building_stability(dead_load_per_sqm, wind_load_per_sqm, building_length_a, building_width_b, building_height, num_floors, wind_force_height) ==
    LET Try(r, next(_)) == IF r.ok THEN next(r.val) ELSE r
        total_dead_load ==
            FMul(FMul(FMul(dead_load_per_sqm, building_length_a), building_width_b),
                 F(num_floors))
        wind_force == FMul(FMul(wind_load_per_sqm, building_height), building_length_a)
        overturning_moment == FMul(wind_force, wind_force_height)
    IN  IF FLe(dead_load_per_sqm, Zero(1))
        THEN Err(Words(<<"Dead", "load", "per", "square", "meter", "must", "be", "positive">>))
        ELSE
        Try(validate_building_parameters(building_length_a, building_width_b,
                                         building_height, num_floors),
            LAMBDA building_ok :
        Try(validate_wind_parameters(wind_load_per_sqm, wind_force_height, building_height),
            LAMBDA wind_ok :
        Try(validate_calculation_result(
                total_dead_load, Words(<<"Dead", "load", "calculation">>)),
            LAMBDA dead_ok :
        Try(calculate_center_to_corner_distance(building_length_a, building_width_b),
            LAMBDA center_to_corner_distance :
        Try(validate_calculation_result(
                FMul(total_dead_load, center_to_corner_distance),
                Words(<<"Resisting", "moment", "calculation">>)),
            LAMBDA resisting_ok :
        Try(validate_calculation_result(
                wind_force, Words(<<"Wind", "force", "calculation">>)),
            LAMBDA force_ok :
        Try(validate_calculation_result(
                overturning_moment, Words(<<"Overturning", "moment", "calculation">>)),
            LAMBDA overturning_ok :
        Try(stability_ratio_of(FMul(total_dead_load, center_to_corner_distance),
                               overturning_moment),
            LAMBDA stability_ratio :
        StabilityResult(FMul(total_dead_load, center_to_corner_distance),
                        overturning_moment, stability_ratio)))))))))

calculate_minimum_dead_load(wind_load_per_sqm, building_length_a, building_width_b, building_height, num_floors, wind_force_height, safety_factor) ==
    LET Try(r, next(_)) == IF r.ok THEN next(r.val) ELSE r
        wind_force == FMul(FMul(wind_load_per_sqm, building_height), building_length_a)
        overturning_moment == FMul(wind_force, wind_force_height)
        required_resisting_moment == FMul(overturning_moment, safety_factor)
        building_area == FMul(FMul(building_length_a, building_width_b), F(num_floors))
    IN  Try(validate_building_parameters(building_length_a, building_width_b,
                                         building_height, num_floors),
            LAMBDA building_ok :
        Try(validate_wind_parameters(wind_load_per_sqm, wind_force_height, building_height),
            LAMBDA wind_ok :
        IF FLe(safety_factor, Zero(1))
        THEN Err(Words(<<"Safety", "factor", "must", "be", "positive">>))
        ELSE
        Try(validate_calculation_result(
                wind_force, Words(<<"Wind", "force", "calculation">>)),
            LAMBDA force_ok :
        Try(validate_calculation_result(
                overturning_moment, Words(<<"Overturning", "moment", "calculation">>)),
            LAMBDA overturning_ok :
        Try(calculate_center_to_corner_distance(building_length_a, building_width_b),
            LAMBDA center_to_corner_distance :
        Try(validate_calculation_result(
                required_resisting_moment,
                Words(<<"Required", "resisting", "moment", "calculation">>)),
            LAMBDA required_ok :
        Try(validate_calculation_result(
                FDiv(required_resisting_moment, center_to_corner_distance),
                Words(<<"Required", "total", "dead", "load", "calculation">>)),
            LAMBDA total_ok :
        IF FEq(building_area, Zero(1))
        THEN Err(Words(<<"Building", "area", "cannot", "be", "zero">>))
        ELSE
        Try(validate_calculation_result(
                FDiv(FDiv(required_resisting_moment, center_to_corner_distance),
                     building_area),
                Words(<<"Required", "dead", "load", "per", "square", "meter",
                        "calculation">>)),
            LAMBDA final_ok :
        Ok(FDiv(FDiv(required_resisting_moment, center_to_corner_distance),
                building_area))))))))))

\* the ratio width_b / length_a, the sides taken as they are passed
calculate_slenderness_ratio_as_passed(length_a, width_b) ==
    LET slenderness_ratio == FDiv(width_b, length_a)
        valid == validate_calculation_result(
                     slenderness_ratio, Words(<<"Slenderness", "ratio", "calculation">>))
    IN  IF FLe(length_a, Zero(1))
        THEN Err(Words(<<"Building", "length", "must", "be", "positive">>))
        ELSE IF FLe(width_b, Zero(1))
        THEN Err(Words(<<"Building", "width", "must", "be", "positive">>))
        ELSE IF FEq(length_a, Zero(1))
        THEN Err(Words(<<"Building", "length", "cannot", "be", "zero">>))
        ELSE IF ~valid.ok THEN valid
        ELSE Ok(slenderness_ratio)

calculate_slenderness_ratio(length_a, width_b) ==
    LET a == IF FGe(length_a, width_b) THEN length_a ELSE width_b
        b == IF FGe(length_a, width_b) THEN width_b ELSE length_a
        slenderness_ratio == FDiv(b, a)
        valid == validate_calculation_result(
                     slenderness_ratio, Words(<<"Slenderness", "ratio", "calculation">>))
    IN  IF FLe(length_a, Zero(1))
        THEN Err(Words(<<"Building", "length", "must", "be", "positive">>))
        ELSE IF FLe(width_b, Zero(1))
        THEN Err(Words(<<"Building", "width", "must", "be", "positive">>))
        ELSE IF FEq(a, Zero(1))
        THEN Err(Words(<<"Building", "length", "cannot", "be", "zero">>))
        ELSE IF ~valid.ok THEN valid
        ELSE Ok(slenderness_ratio)

\* the WindStiffnessResult with the criterion b/a >= 1/5
WindStiffnessResult_inclusive(length_a, width_b, slenderness_ratio) ==
    LET a == IF FGe(length_a, width_b) THEN length_a ELSE width_b
        b == IF FGe(length_a, width_b) THEN width_b ELSE length_a
        is_compliant == FGe(slenderness_ratio, Fin(1, 1, 5))
        warning_message ==
            IF ~is_compliant
            THEN Option_Some(
                     Words(<<"Building", "is", "too", "slender", ".", "Slenderness",
                             "ratio">>)
                     \o <<Fmt(slenderness_ratio, 3)>> \o
                     Words(<<"is", "below", "the", "minimum", "requirement", "of", "0",
                             ".", "2", ".", "Consider", "increasing", "the", "shorter",
                             "dimension", "or", "adding", "structural", "reinforcements",
                             ".">>))
            ELSE Option_None
    IN  Ok([length_a |-> a, width_b |-> b, slenderness_ratio |-> slenderness_ratio,
            is_compliant |-> is_compliant, warning_message |-> warning_message])

\* check_wind_stiffness_compliance after the ratio: the sides, the criterion,
\* the warning and the WindStiffnessResult
WindStiffnessResult(length_a, width_b, slenderness_ratio) ==
    LET a == IF FGe(length_a, width_b) THEN length_a ELSE width_b
        b == IF FGe(length_a, width_b) THEN width_b ELSE length_a
        is_compliant == FGt(slenderness_ratio, Fin(1, 1, 5))
        warning_message ==
            IF ~is_compliant
            THEN Option_Some(
                     Words(<<"Building", "is", "too", "slender", ".", "Slenderness",
                             "ratio">>)
                     \o <<Fmt(slenderness_ratio, 3)>> \o
                     Words(<<"is", "below", "the", "minimum", "requirement", "of", "0",
                             ".", "2", ".", "Consider", "increasing", "the", "shorter",
                             "dimension", "or", "adding", "structural", "reinforcements",
                             ".">>))
            ELSE Option_None
    IN  Ok([length_a |-> a, width_b |-> b, slenderness_ratio |-> slenderness_ratio,
            is_compliant |-> is_compliant, warning_message |-> warning_message])

check_wind_stiffness_compliance(length_a, width_b) ==
    LET Try(r, next(_)) == IF r.ok THEN next(r.val) ELSE r
    IN  Try(calculate_slenderness_ratio(length_a, width_b),
            LAMBDA slenderness_ratio :
                WindStiffnessResult(length_a, width_b, slenderness_ratio))

\* str::to_lowercase, on the calculation types of the calls.  params is the
\* Vec<f64> of a command as a sequence: params[i] of the code is params[i + 1]
to_lowercase(t) ==
    IF t = "STABILITY" THEN "stability"
    ELSE IF t = "Wind_Stiffness" THEN "wind_stiffness"
    ELSE t

calc_architecture_wind_stiffness(params) ==
    LET Try(r, next(_)) == IF r.ok THEN next(r.val) ELSE r
    IN  IF Len(params) # 2
        THEN Err(Words(<<"Wind", "stiffness", "calculation", "requires", "exactly", "2",
                         "parameters", ":", "[", "length", ",", "width", "]">>))
        ELSE
        Try(check_wind_stiffness_compliance(params[1], params[2]),
            LAMBDA res :
        Ok([calculation_type |-> "wind_stiffness",
            result_value |-> res.slenderness_ratio,
            is_success |-> res.is_compliant,
            message |->
                (IF res.is_compliant
                 THEN Words(<<"Wind", "stiffness", "compliant", ".", "Slenderness", "ratio",
                              ":">>)
                 ELSE Words(<<"Wind", "stiffness", "non", "-", "compliant", ".",
                              "Slenderness", "ratio", ":">>))
                \o <<Fmt(res.slenderness_ratio, 3)>>,
            details |-> res.warning_message]))

calc_architecture_stability(params) ==
    LET Try(r, next(_)) == IF r.ok THEN next(r.val) ELSE r
    IN  IF Len(params) # 7
        THEN Err(Words(<<"Stability", "calculation", "requires", "exactly", "7", "parameters",
                         ":", "[", "dead_load", ",", "wind_load", ",", "length", ",", "width",
                         ",", "height", ",", "floors", ",", "wind_height", "]">>))
        ELSE
        Try(safe_f64_to_u32(params[6], Words(<<"Number", "of", "floors">>)),
            LAMBDA num_floors :
        Try(verify_building_stability(params[1], params[2], params[3], params[4], params[5],
                                      num_floors, params[7]),
            LAMBDA res :
        Ok([calculation_type |-> "stability",
            result_value |-> res.stability_ratio,
            is_success |-> res.is_stable,
            message |->
                (IF res.is_stable
                 THEN Words(<<"Building", "is", "stable", ".", "Stability", "ratio", ":">>)
                 ELSE Words(<<"Building", "is", "unstable", ".", "Stability", "ratio", ":">>))
                \o <<Fmt(res.stability_ratio, 3)>>,
            details |->
                Option_Some(
                    Words(<<"Resisting", "moment", ":">>) \o <<Fmt(res.resisting_moment, 2)>>
                    \o Words(<<"kN⋅m", ",", "Overturning", "moment", ":">>)
                    \o <<Fmt(res.overturning_moment, 2)>>
                    \o Words(<<"kN⋅m", ",", "Safety", "margin", ":">>)
                    \o <<Fmt(res.safety_margin, 3)>>)])))

calc_architecture_min_dead_load(params) ==
    LET Try(r, next(_)) == IF r.ok THEN next(r.val) ELSE r
    IN  IF Len(params) # 7
        THEN Err(Words(<<"Minimum", "dead", "load", "calculation", "requires", "exactly", "7",
                         "parameters", ":", "[", "wind_load", ",", "length", ",", "width", ",",
                         "height", ",", "floors", ",", "wind_height", ",", "safety_factor",
                         "]">>))
        ELSE
        Try(safe_f64_to_u32(params[5], Words(<<"Number", "of", "floors">>)),
            LAMBDA num_floors :
        Try(calculate_minimum_dead_load(params[1], params[2], params[3], params[4],
                                        num_floors, params[6], params[7]),
            LAMBDA res :
        Ok([calculation_type |-> "min_dead_load",
            result_value |-> res,
            is_success |-> TRUE,
            message |->
                Words(<<"Minimum", "required", "dead", "load", ":">>) \o <<Fmt(res, 3)>>
                \o Words(<<"kN/m²">>),
            details |-> Option_None])))

calc_architecture_slenderness_ratio(params) ==
    LET Try(r, next(_)) == IF r.ok THEN next(r.val) ELSE r
        longer_first == FGe(params[1], params[2])
        a == IF longer_first THEN params[1] ELSE params[2]
        b == IF longer_first THEN params[2] ELSE params[1]
    IN  IF Len(params) # 2
        THEN Err(Words(<<"Slenderness", "ratio", "calculation", "requires", "exactly",
                         "2", "parameters", ":", "[", "length", ",", "width", "]">>))
        ELSE
        Try(calculate_slenderness_ratio(params[1], params[2]),
            LAMBDA ratio :
        Ok([calculation_type |-> "slenderness_ratio",
            result_value |-> ratio,
            is_success |-> TRUE,
            message |->
                Words(<<"Slenderness", "ratio", ":">>) \o <<Fmt(ratio, 3)>>
                \o Words(<<"(", "b/a", ")">>),
            details |->
                Option_Some(
                    Words(<<"Longer", "side", "(", "a", ")", ":">>) \o <<Fmt(a, 2)>>
                    \o Words(<<"m", ",", "Shorter", "side", "(", "b", ")", ":">>)
                    \o <<Fmt(b, 2)>> \o Words(<<"m">>))]))

calc_architecture(calculation_type, params) ==
    LET t == to_lowercase(calculation_type)
    IN  IF t = "wind_stiffness" THEN calc_architecture_wind_stiffness(params)
        ELSE IF t = "stability" THEN calc_architecture_stability(params)
        ELSE IF t = "min_dead_load" THEN calc_architecture_min_dead_load(params)
        ELSE IF t = "slenderness_ratio" THEN calc_architecture_slenderness_ratio(params)
        ELSE Err(Words(<<"Unknown", "calculation", "type", ":">>) \o <<Word(calculation_type)>>
                 \o Words(<<".", "Supported", "types", ":", "wind_stiffness", ",",
                             "stability", ",", "min_dead_load", ",", "slenderness_ratio">>))

\* the String of calc_architecture_command for what calc_architecture returned
Output(res) ==
    IF res.ok
    THEN <<Word(res.val.calculation_type), Word(":")>> \o res.val.message
         \o <<Word("\n")>>
         \o (IF res.val.details.some THEN res.val.details.val \o <<Word("\n")>> ELSE <<>>)
    ELSE Words(<<"Error", ":">>) \o res.err

calc_architecture_command(calculation_type, params) ==
    Output(calc_architecture(calculation_type, params))

\* the floors parameter of a command: unsafe values of each kind, and safe ones
FloorValues ==
    {NaN, Inf(1), Inf(-1), F(-5), Huge, F(0), F(1), F(8), F(10), Fin(1, 5, 2)}

\* the sides passed to the slenderness functions: 1/5 is the ratio of 1 to 5
\* and of 4 to 20
Sides == {F(0), F(-1), F(1), F(4), F(5), F(20), F(21), NaN, Inf(1)}

\* the buildings and winds of the calls: lengths and widths whose
\* half-diagonal is a fraction (2.5, 5, 12.5) and pairs the validation
\* refuses, with heights, floors, wind loads and wind force heights that are
\* valid, zero, or above the building; the wind load 2^-200 is positive and
\* its moments stay below f64::EPSILON (tests/mod.rs:701 uses 1e-20)
Sites ==
    [wind_load_per_sqm : {F(0), F(1), F(2), Scaled(1, 1, 1, 1)},
     dims : {<<F(3), F(4)>>, <<F(4), F(3)>>, <<F(6), F(8)>>, <<F(20), F(15)>>,
             <<F(0), F(4)>>, <<F(3), Fin(1, 1, 20)>>, <<F(20000), F(15)>>, <<NaN, F(4)>>},
     building_height : {F(0), F(10), F(30)},
     num_floors : {0, 1, 10},
     wind_force_height : {F(0), F(1), F(5), F(15)}]

\* the commands: those of the tests (tests/mod.rs:831-882) with the floors
\* and loads varied, the two slenderness commands, and malformed ones
Commands ==
    {[calculation_type |-> t, params |-> <<q, F(1), F(20), F(15), F(30), fl, F(15)>>] :
         t \in {"stability", "STABILITY"}, q \in {F(0), F(1), F(5)}, fl \in FloorValues}
    \cup
    {[calculation_type |-> "min_dead_load",
      params |-> <<F(2), F(20), F(15), F(30), fl, F(15), sf>>] :
         fl \in FloorValues, sf \in {F(0), F(1), F(3)}}
    \cup
    {[calculation_type |-> t, params |-> <<l, w>>] :
         t \in {"wind_stiffness", "Wind_Stiffness", "slenderness_ratio"},
         l \in Sides, w \in Sides}
    \cup
    {[calculation_type |-> t, params |-> <<F(1)>>] :
         t \in {"stability", "min_dead_load", "wind_stiffness", "slenderness_ratio",
                "volume"}}

Reply(req, rep) ==
    /\ request' = req
    /\ reply' = rep
    /\ UNCHANGED <<interpVars, lexVars, peer, replVars>>

CallCommand ==
    /\ request = NoRequest
    /\ \E c \in Commands :
           Reply([fn |-> "calc_architecture_command",
                  calculation_type |-> c.calculation_type, params |-> c.params],
                 calc_architecture_command(c.calculation_type, c.params))

CallVerifyBuildingStability ==
    /\ request = NoRequest
    /\ \E q \in {F(0), F(1), F(3), F(5), NaN}, site \in Sites :
           Reply([fn |-> "verify_building_stability", dead_load_per_sqm |-> q, site |-> site],
                 verify_building_stability(
                     q, site.wind_load_per_sqm, site.dims[1], site.dims[2],
                     site.building_height, site.num_floors, site.wind_force_height))

CallCalculateMinimumDeadLoad ==
    /\ request = NoRequest
    /\ \E site \in Sites, sf \in {F(0), F(1), F(3)} :
           Reply([fn |-> "calculate_minimum_dead_load", site |-> site, safety_factor |-> sf],
                 calculate_minimum_dead_load(
                     site.wind_load_per_sqm, site.dims[1], site.dims[2],
                     site.building_height, site.num_floors, site.wind_force_height, sf))

CallCheckWindStiffnessCompliance ==
    /\ request = NoRequest
    /\ \E l \in Sides, w \in Sides :
           Reply([fn |-> "check_wind_stiffness_compliance", length_a |-> l, width_b |-> w],
                 check_wind_stiffness_compliance(l, w))

CallCalculateSlendernessRatio ==
    /\ request = NoRequest
    /\ \E l \in Sides, w \in Sides :
           Reply([fn |-> "calculate_slenderness_ratio", length_a |-> l, width_b |-> w],
                 calculate_slenderness_ratio(l, w))

\* the load calculate_minimum_dead_load returned goes into
\* verify_building_stability with the same building and wind
CallVerifyWithMinimumDeadLoad ==
    /\ request.fn = "calculate_minimum_dead_load"
    /\ reply.ok
    /\ Reply([fn |-> "verify_building_stability", dead_load_per_sqm |-> reply.val,
              site |-> request.site, safety_factor |-> request.safety_factor],
             verify_building_stability(
                 reply.val, request.site.wind_load_per_sqm, request.site.dims[1],
                 request.site.dims[2], request.site.building_height,
                 request.site.num_floors, request.site.wind_force_height))

\* the block that computes stability_ratio, on moments of either sign
CallStabilityRatio ==
    /\ request = NoRequest
    /\ \E me \in {F(0), F(90), Scaled(1, 90, 1, 1)},
          mv \in {F(-30), Scaled(-1, 30, 1, 1), Zero(-1), F(0), Scaled(1, 30, 1, 1), F(30)} :
           Reply([fn |-> "stability_ratio", resisting_moment |-> me,
                  overturning_moment |-> mv],
                 stability_ratio_of(me, mv))

\* the caller is done with what the function returned
ArchReturn ==
    /\ request # NoRequest
    /\ Reply(NoRequest, NoRequest)

ArchNext ==
    \/ CallCommand
    \/ CallVerifyBuildingStability
    \/ CallCalculateMinimumDeadLoad
    \/ CallVerifyWithMinimumDeadLoad
    \/ CallStabilityRatio
    \/ CallCheckWindStiffnessCompliance
    \/ CallCalculateSlendernessRatio
    \/ ArchReturn

ArchSpec == Init /\ [][ArchNext]_vars

(***************************************************************************)
(* start_repl (src/src/repl/mod.rs).  Standard input is a sequence of      *)
(* lines, each a sequence of characters with its newline, or the marker of *)
(* a read that fails (bytes that are not UTF-8); at its end read_line      *)
(* returns Ok(0) and leaves `input` empty.  An iteration is two steps: the *)
(* read, then the test with the exit or the println!.                      *)
(***************************************************************************)
\* the text with all of its whitespace removed
trim_all(t) == SelectSeq(t, LAMBDA c : ~is_whitespace(c))

\* str::trim: the slice from the first to the last character that is not
\* whitespace
trim(t) ==
    LET keep == {i \in 1..Len(t) : ~is_whitespace(t[i])}
    IN  IF keep = {} THEN <<>>
        ELSE SubSeq(t, CHOOSE i \in keep : \A j \in keep : i <= j,
                       CHOOSE i \in keep : \A j \in keep : j <= i)

\* start_repl() has been called on a standard input of up to MaxLines lines:
\* the word exit alone, with spaces, without its newline, inside other text,
\* split, in capitals, an empty line, a letter, and a read error
ReplInit ==
    /\ stdin \in UNION {[1..n -> {<<"e", "x", "i", "t", "\n">>,
                                  <<" ", "e", "x", "i", "t", " ", "\n">>,
                                  <<"e", "x", "i", "t">>,
                                  <<"e", "x", "i", "t", "s", "\n">>,
                                  <<"e", "x", " ", "i", "t", "\n">>,
                                  <<"E", "X", "I", "T", "\n">>,
                                  <<"\n">>,
                                  <<"a", "\n">>,
                                  <<"invalid UTF-8">>}] : n \in 0..MaxLines}
    /\ input = <<>>
    /\ printed = <<>>
    /\ replpc = "read"
    /\ variables = EmptyMap
    /\ before = EmptyMap
    /\ node = NoCall
    /\ result = Value_None
    /\ out = <<>>
    /\ pc = "idle"
    /\ chars = <<>>
    /\ pos = 0
    /\ tokens = <<>>
    /\ lexpc = "idle"
    /\ peer = NewPeer
    /\ request = NoRequest
    /\ reply = NoRequest

\* input.clear(); stdin.read_line(input): a line, nothing at the end of the
\* input, or an error, after which the loop continues with the next read
ReplReadLine ==
    /\ replpc = "read"
    /\ IF stdin = <<>>
       THEN input' = <<>> /\ replpc' = "test" /\ UNCHANGED stdin
       ELSE /\ stdin' = Tail(stdin)
            /\ IF Head(stdin) = <<"invalid UTF-8">>
               THEN input' = <<>> /\ replpc' = "read"
               ELSE input' = Head(stdin) /\ replpc' = "test"
    /\ UNCHANGED <<printed, interpVars, lexVars, peer, archVars>>

\* if input.trim() == "exit" { std::process::exit(0) }
ReplExit ==
    /\ replpc = "test"
    /\ trim(input) = <<"e", "x", "i", "t">>
    /\ replpc' = "exited"
    /\ UNCHANGED <<stdin, input, printed, interpVars, lexVars, peer, archVars>>

\* else { println!("{}", input) }
ReplEcho ==
    /\ replpc = "test"
    /\ trim(input) # <<"e", "x", "i", "t">>
    /\ printed' = input \o <<"\n">>
    /\ replpc' = "read"
    /\ UNCHANGED <<stdin, input, interpVars, lexVars, peer, archVars>>

ReplNext == ReplReadLine \/ ReplExit \/ ReplEcho

\* the loop is sequential code: an iteration that can run does run
ReplLive == ReplInit /\ [][ReplNext]_vars /\ WF_vars(ReplNext)

(***************************************************************************)
(* Properties.                                                             *)
(***************************************************************************)
Bound(self, name) == name \in DOMAIN self

\* the lines of `lines` whose tag is `tag`
LinesOf(lines, tag) == SelectSeq(lines, LAMBDA ln : ln.line = tag)

\* C1: a reference to a builtin constant's name returns the constant, whatever
\* has been assigned to that name before: constant lookup precedes variable
\* lookup, at the root of the tree and at every reference inside it (no
\* reference to a constant's name is ever answered from `variables`).
C1_ConstantsNeverShadowed ==
    /\ (node.kind = "Var" /\ node.name \in DOMAIN math_constants)
           => result = Value_Number(math_constants[node.name])
    /\ \A i \in 1..Len(out) :
           /\ out[i].line = "Variable" => out[i].name \notin DOMAIN math_constants
           /\ out[i].line = "Constante matematica"
                  => out[i].num = math_constants[out[i].name]

\* PI has been assigned 1, and a reference to PI still returns the constant
C1_Witness ==
    /\ node = Var("PI")
    /\ Bound(before, "PI")
    /\ before["PI"] = F(1)
    /\ result = Value_Number(MathPI)

\* C2 as stated: for EVERY name, a reference immediately after the
\* assignment of a number literal returns that number, and a reference to a
\* name that is not bound returns None.
C2_Original ==
    [][/\ (node.kind = "Assign" /\ node.expr.kind = "Number"
              /\ node'.kind = "Var" /\ node'.name = node.name)
             => result' = Value_Number(node.expr.value)
       /\ (node'.kind = "Var" /\ ~Bound(variables, node'.name))
             => result' = Value_None]_vars

\* C2 (amended): for every name that is not a builtin constant's name, a
\* reference immediately after the assignment of a number literal to that
\* name returns that number, and a reference to a name never assigned
\* returns None.
C2_AssignThenReference ==
    [][/\ (node.kind = "Assign" /\ node.expr.kind = "Number"
              /\ node'.kind = "Var" /\ node'.name = node.name
              /\ node'.name \notin DOMAIN math_constants)
             => result' = Value_Number(node.expr.value)
       /\ (node'.kind = "Var" /\ ~Bound(variables, node'.name)
              /\ node'.name \notin DOMAIN math_constants)
             => result' = Value_None]_vars

\* x and y have both been assigned, and the reference to x returns the 2
\* that the last assignment to x gave it
C2_Witness ==
    /\ node = Var("x")
    /\ Bound(before, "x")
    /\ Bound(before, "y")
    /\ result = Value_Number(F(2))

\* does the tree contain an Assign node?
RECURSIVE ContainsAssign(_)
ContainsAssign(nd) ==
    CASE nd.kind = "Assign" -> TRUE
      [] nd.kind = "BinOp" -> ContainsAssign(nd.left) \/ ContainsAssign(nd.right)
      [] nd.kind = "FunctionCall" -> \E i \in 1..Len(nd.args) : ContainsAssign(nd.args[i])
      [] OTHER -> FALSE

\* the call that has returned is an Assign whose expr evaluated to a non-Number
FailedAssign ==
    /\ pc = "returned"
    /\ node.kind = "Assign"
    /\ accept(before, node.expr).value.kind # "Number"

\* C3 as stated: a failed Assignment returns None and leaves the map as it
\* was before the Assignment, for every expr.
C3_Original == FailedAssign => (result = Value_None /\ variables = before)

\* C3 (amended): a failed Assignment returns None and binds nothing itself:
\* the map after it is the map that evaluating expr alone leaves, which is
\* the map before whenever expr contains no Assign node.
C3_FailedAssignBindsNothing ==
    FailedAssign =>
        /\ result = Value_None
        /\ variables = accept(before, node.expr).variables
        /\ ~ContainsAssign(node.expr) => variables = before

\* the failed assignment to x whose expr bound y on the way
C3_Witness ==
    /\ FailedAssign
    /\ node = Assign("x", FunctionCall("unknown_fn", <<Assign("y", Number(F(1)))>>))
    /\ ~Bound(variables, "x")
    /\ ~Bound(before, "y")
    /\ Bound(variables, "y")

\* the call that has returned is an Assign whose expr evaluated to a Number
SuccessfulAssign ==
    /\ pc = "returned"
    /\ node.kind = "Assign"
    /\ accept(before, node.expr).value.kind = "Number"

\* the successful assignments of the call, oldest first: the "Asignando" lines
Assigned == LinesOf(out, "Asignando")

\* the positions in Assigned of the assignments to name
AssignedTo(name) == {i \in 1..Len(Assigned) : Assigned[i].name = name}

\* C4: an Assignment whose expr evaluates to Number(v) returns Number(v) and
\* binds its name to v, over any prior binding; and after the successful
\* assignments of any tree, each assigned name is bound to the number of the
\* most recent successful assignment to it, while every name not assigned
\* keeps the binding (or the absence of one) it had before.
C4_LastAssignmentWins ==
    /\ SuccessfulAssign =>
           /\ result = accept(before, node.expr).value
           /\ Bound(variables, node.name)
           /\ variables[node.name] = result.num
    /\ pc = "returned" =>
           \A name \in DOMAIN variables \cup DOMAIN before \cup Names :
               IF AssignedTo(name) = {}
               THEN /\ Bound(variables, name) <=> Bound(before, name)
                    /\ Bound(before, name) => variables[name] = before[name]
               ELSE /\ Bound(variables, name)
                    /\ \E i \in AssignedTo(name) :
                           /\ \A j \in AssignedTo(name) : j <= i
                           /\ variables[name] = Assigned[i].num

\* x was 1 and is overwritten with 2 while y keeps its binding
C4_Witness ==
    /\ SuccessfulAssign
    /\ node = Assign("x", Number(F(2)))
    /\ Bound(before, "x") /\ before["x"] = F(1)
    /\ Bound(before, "y") /\ variables["y"] = before["y"]
    /\ variables["x"] = F(2)
    /\ result = Value_Number(F(2))

\* the call that has returned names a builtin function and has 0 or 2+ arguments
WrongArity ==
    /\ pc = "returned"
    /\ node.kind = "FunctionCall"
    /\ node.name \in math_functions
    /\ Len(node.args) # 1

\* C5: a call of a builtin function with 0 or 2+ arguments returns None,
\* evaluates none of its arguments (it writes its two own lines and nothing
\* an argument would write) and leaves the map unmodified, also when the
\* arguments are Assign nodes.
C5_WrongArityEvaluatesNothing ==
    WrongArity =>
        /\ result = Value_None
        /\ variables = before
        /\ out = <<[line |-> "Llamada a funcion", name |-> node.name,
                    nargs |-> Len(node.args)],
                   [line |-> "Error: requiere exactamente 1 argumento",
                    name |-> node.name]>>

\* sqrt called with an assignment to x and a second argument: x stays unbound
C5_Witness ==
    /\ WrongArity
    /\ node = FunctionCall("sqrt", <<Assign("x", Number(F(1))), Var("x")>>)
    /\ ~Bound(variables, "x")
    /\ result = Value_None

\* the call that has returned names no builtin function
UnknownCall ==
    /\ pc = "returned"
    /\ node.kind = "FunctionCall"
    /\ node.name \notin math_functions

\* the map in which the k-th argument of the returned call must be evaluated
\* when the arguments are evaluated once each, first to last
RECURSIVE MapBeforeArg(_)
MapBeforeArg(k) ==
    IF k = 1 THEN before
    ELSE accept(MapBeforeArg(k - 1), node.args[k - 1]).variables

\* the lines of the arguments k .. last, each evaluated once, in list order
RECURSIVE LinesFromArg(_)
LinesFromArg(k) ==
    IF k > Len(node.args) THEN <<>>
    ELSE accept(MapBeforeArg(k), node.args[k]).out \o LinesFromArg(k + 1)

\* C6: a call of a name that is no builtin function evaluates every argument
\* exactly once, first to last, each in the map the arguments before it have
\* left (so nested assignments take effect and are seen by later arguments),
\* and returns None whatever the arguments evaluate to.
C6_UnknownCallEvaluatesArgsInOrder ==
    UnknownCall =>
        /\ result = Value_None
        /\ out = <<[line |-> "Llamada a funcion", name |-> node.name,
                    nargs |-> Len(node.args)]>> \o LinesFromArg(1)
        /\ variables = MapBeforeArg(Len(node.args) + 1)

\* the second argument reads the x that the first argument has just bound
C6_Witness ==
    /\ UnknownCall
    /\ node = FunctionCall("unknown_fn", <<Assign("x", Number(F(1))), Var("x")>>)
    /\ ~Bound(before, "x")
    /\ out[2] = [line |-> "Asignando", name |-> "x", num |-> F(1)]
    /\ out[3] = [line |-> "Variable", name |-> "x", num |-> F(1)]
    /\ result = Value_None

\* the call that has returned is a BinOp; its operands as the code evaluates
\* them: the left in the map before, the right in the map the left has left
BinOpCall == pc = "returned" /\ node.kind = "BinOp"

LeftOperand == accept(before, node.left)

RightOperand == accept(LeftOperand.variables, node.right)

Arithmetic == {"+", "-", "*", "/"}

\* a op b in f64
Apply(op, a, b) ==
    CASE op = "+" -> FAdd(a, b)
      [] op = "-" -> FSub(a, b)
      [] op = "*" -> FMul(a, b)
      [] op = "/" -> FDiv(a, b)

\* the non-negative integer a literal of the trees holds
IntOf(nd) == nd.value.n

\* the f64 x is the quotient i / j of two non-negative integers, j # 0
IsQuotient(x, i, j) == x.k = "fin" /\ x.s = 1 /\ x.n * j = i * x.d

\* C7: a BinOp with one of + - * / whose operands evaluate to Numbers a and b
\* returns Number(a op b); on integer literals i and j this is the integer
\* sum, difference and product and the exact quotient, and a division by
\* zero returns a Number that is an infinity or NaN, never None.
C7_ArithmeticOnNumbers ==
    (/\ BinOpCall
     /\ node.op \in Arithmetic
     /\ LeftOperand.value.kind = "Number"
     /\ RightOperand.value.kind = "Number") =>
        /\ result = Value_Number(Apply(node.op, LeftOperand.value.num, RightOperand.value.num))
        /\ (node.left.kind = "Number" /\ node.right.kind = "Number") =>
               LET i == IntOf(node.left)
                   j == IntOf(node.right)
               IN  CASE node.op = "+" -> result.num = F(i + j)
                     [] node.op = "-" -> result.num = F(i - j)
                     [] node.op = "*" -> result.num = F(i * j)
                     [] node.op = "/" ->
                            /\ j # 0 => IsQuotient(result.num, i, j)
                            /\ (j = 0 /\ i # 0) => result.num = Inf(1)
                            /\ (j = 0 /\ i = 0) => result.num = NaN
        /\ (node.op = "/" /\ IsZero(RightOperand.value.num)) =>
               result.kind = "Number" /\ result.num.k \in {"inf", "nan"}

\* 1 / 0 is Number(Infinity)
C7_Witness ==
    /\ BinOpCall
    /\ node = BinOp(Number(F(1)), "/", Number(F(0)))
    /\ result = Value_Number(Inf(1))

\* C8: a BinOp evaluates its left operand completely, then its right operand
\* in the map the left has left, and always both: the lines of the call are
\* the lines of the left, then those of the right, then at most one line of
\* its own, and the map after is the map the right operand leaves, also when
\* the left is not a Number or the operator is none of the four.
C8_LeftThenRightNoShortCircuit ==
    BinOpCall =>
        /\ variables = RightOperand.variables
        /\ Len(out) \in {Len(LeftOperand.out) + Len(RightOperand.out),
                         Len(LeftOperand.out) + Len(RightOperand.out) + 1}
        /\ SubSeq(out, 1, Len(LeftOperand.out) + Len(RightOperand.out))
               = LeftOperand.out \o RightOperand.out

\* the left operand is an unbound x (None), the operator is unknown, and the
\* assignment on the right has still bound x
C8_Witness ==
    /\ BinOpCall
    /\ node = BinOp(Var("x"), "^", Assign("x", Number(F(1))))
    /\ ~Bound(before, "x")
    /\ Bound(variables, "x")
    /\ out[1] = [line |-> "Variable no definida", name |-> "x"]
    /\ out[2] = [line |-> "Asignando", name |-> "x", num |-> F(1)]

\* C9: a BinOp returns None whenever an operand evaluates to a non-Number,
\* and whenever both are Numbers and the operator string is none of + - * /
\* ("%" and "^" included); the call returns in every case.
C9_NoneOnTypeOrOperatorError ==
    BinOpCall =>
        /\ (LeftOperand.value.kind # "Number" \/ RightOperand.value.kind # "Number")
               => result = Value_None
        /\ node.op \notin Arithmetic => result = Value_None
        /\ result.kind \in {"Number", "None"}

\* 1 % 2 on two Numbers is None
C9_Witness ==
    /\ BinOpCall
    /\ node = BinOp(Number(F(1)), "%", Number(F(2)))
    /\ result = Value_None
    /\ out = <<[line |-> "Operacion desconocida", op |-> "%"]>>

\* the call that has returned is a reference to a name that is neither a
\* builtin constant nor bound
UnresolvedReference ==
    /\ pc = "returned"
    /\ node.kind = "Var"
    /\ node.name \notin DOMAIN math_constants
    /\ ~Bound(before, node.name)

\* C10: a reference to a name that is neither a builtin constant nor bound
\* returns None and leaves the map unchanged: no binding is created.
C10_UnresolvedReferenceIsNone ==
    UnresolvedReference =>
        /\ result = Value_None
        /\ variables = before
        /\ ~Bound(variables, node.name)

\* y is referenced while only x is bound
C10_Witness ==
    /\ UnresolvedReference
    /\ node = Var("y")
    /\ Bound(before, "x")
    /\ result = Value_None

\* the call that has returned names a builtin function and has one argument,
\* which evaluated to a Number
BuiltinCallOnNumber ==
    /\ pc = "returned"
    /\ node.kind = "FunctionCall"
    /\ node.name \in math_functions
    /\ Len(node.args) = 1
    /\ accept(before, node.args[1]).value.kind = "Number"

\* the Number the argument of the returned call evaluated to
Argument == accept(before, node.args[1]).value.num

\* x < 0.0
Negative(x) == (x.k = "fin" /\ x.s = -1 /\ x.n > 0) \/ x = Inf(-1)

\* C11: a call of a builtin function with exactly one argument that evaluates
\* to Number(x) returns Number(f(x)) for the registered f, a Number also when
\* it is NaN: sqrt of a negative x and log of an x <= 0 return Number(NaN);
\* and sqrt(0) = 0, sqrt(1) = 1, log(1) = 0, exp(0) = 1, tan(0) = 0,
\* tan(PI/2) = NaN.
C11_BuiltinReturnsNumber ==
    BuiltinCallOnNumber =>
        /\ result = Value_Number(math_func(node.name, Argument))
        /\ (node.name = "sqrt" /\ Negative(Argument)) => result = Value_Number(NaN)
        /\ (node.name = "log" /\ (Negative(Argument) \/ IsZero(Argument)))
               => result = Value_Number(NaN)
        /\ (node.name = "sqrt" /\ Argument \in {F(0), F(1)}) => result = Value_Number(Argument)
        /\ (node.name = "log" /\ Argument = F(1)) => result = Value_Number(F(0))
        /\ (node.name = "exp" /\ Argument = F(0)) => result = Value_Number(F(1))
        /\ (node.name = "tan" /\ Argument = F(0)) => result = Value_Number(F(0))
        /\ (node.name = "tan" /\ Argument = FDiv(MathPI, F(2))) => result = Value_Number(NaN)

\* sqrt(0 - 1) is Number(NaN)
C11_Witness ==
    /\ BuiltinCallOnNumber
    /\ node = FunctionCall("sqrt", <<BinOp(Number(F(0)), "-", Number(F(1)))>>)
    /\ Argument = F(-1)
    /\ result = Value_Number(NaN)

\* the eight variants of Node
NodeKinds ==
    {"Number", "StringLiteral", "Var", "BinOp", "Assign", "FunctionCall", "Comment",
     "EvalMathExp"}

\* the four kinds of f64 of the model
IsFloat(x) == x.k \in {"fin", "inf", "nan"}

\* C12: evaluation is total over the eight node variants: every accept
\* returns, and what it returns is a Number (an f64), a String or None; a
\* Comment and an EvalMathExp always return None.
C12_EvaluationTotal ==
    pc = "returned" =>
        /\ node.kind \in NodeKinds
        /\ result.kind \in {"Number", "String", "None"}
        /\ result.kind = "Number" => IsFloat(result.num)
        /\ node.kind \in {"Comment", "EvalMathExp"} => result = Value_None

\* a Comment evaluated on an Interpreter that has bindings returned None
C12_Witness ==
    /\ pc = "returned"
    /\ node.kind = "Comment"
    /\ Bound(variables, "x")
    /\ result = Value_None

\* the number of nodes of the kinds `kinds` in the tree nd
RECURSIVE CountKind(_, _)
RECURSIVE SumCount(_, _, _)
CountKind(nd, kinds) ==
    (IF nd.kind \in kinds THEN 1 ELSE 0) +
    CASE nd.kind = "BinOp" -> CountKind(nd.left, kinds) + CountKind(nd.right, kinds)
      [] nd.kind = "Assign" -> CountKind(nd.expr, kinds)
      [] nd.kind = "FunctionCall" -> SumCount(nd.args, kinds, 1)
      [] OTHER -> 0

\* the nodes of the kinds `kinds` in args[i..]
SumCount(args, kinds, i) ==
    IF i > Len(args) THEN 0 ELSE CountKind(args[i], kinds) + SumCount(args, kinds, i + 1)

\* the lines of `lines` whose tag is one of `tags`
CountLines(lines, tags) == Len(SelectSeq(lines, LAMBDA ln : ln.line \in tags))

\* the lines each visit_* method prints once per visit, by kind of node
VarLines == {"Constante matematica", "Variable", "Variable no definida"}
AssignLines == {"Asignando", "Asignacion fallida"}
CallLines == {"Llamada a funcion"}
CommentLines == {"Comentario"}
StringLines == {"Cadena"}
MathExpLines == {"Evaluando expresion matematica"}
BinOpLines == {"Operacion desconocida", "Error de tipo en operacion binaria"}

\* no builtin call of the tree nd is refused for its number of arguments
RECURSIVE AllArgsEvaluated(_)
AllArgsEvaluated(nd) ==
    CASE nd.kind = "BinOp" -> AllArgsEvaluated(nd.left) /\ AllArgsEvaluated(nd.right)
      [] nd.kind = "Assign" -> AllArgsEvaluated(nd.expr)
      [] nd.kind = "FunctionCall" ->
             /\ nd.name \in math_functions => Len(nd.args) = 1
             /\ \A i \in 1..Len(nd.args) : AllArgsEvaluated(nd.args[i])
      [] OTHER -> TRUE

\* C13: the evaluation of a finite tree returns, and no node of it is visited
\* more than once: the lines a visit prints once (Var, Assign, FunctionCall,
\* Comment, StringLiteral, EvalMathExp) number at most the nodes of that kind,
\* and exactly that many when no call is refused for its arity; a BinOp prints
\* at most one line.
C13_EachNodeVisitedOnce ==
    pc = "returned" =>
        /\ CountLines(out, VarLines) <= CountKind(node, {"Var"})
        /\ CountLines(out, AssignLines) <= CountKind(node, {"Assign"})
        /\ CountLines(out, CallLines) <= CountKind(node, {"FunctionCall"})
        /\ CountLines(out, CommentLines) <= CountKind(node, {"Comment"})
        /\ CountLines(out, StringLines) <= CountKind(node, {"StringLiteral"})
        /\ CountLines(out, MathExpLines) <= CountKind(node, {"EvalMathExp"})
        /\ CountLines(out, BinOpLines) <= CountKind(node, {"BinOp"})
        /\ AllArgsEvaluated(node) =>
               /\ CountLines(out, VarLines) = CountKind(node, {"Var"})
               /\ CountLines(out, AssignLines) = CountKind(node, {"Assign"})
               /\ CountLines(out, CallLines) = CountKind(node, {"FunctionCall"})
               /\ CountLines(out, StringLines) = CountKind(node, {"StringLiteral"})

\* an assignment whose expr is a binary operation on two references returned
\* with one line for the Assign and one for each Var
C13_Witness ==
    /\ pc = "returned"
    /\ node.kind = "Assign"
    /\ node.expr.kind = "BinOp"
    /\ CountKind(node, {"Var"}) = 2
    /\ CountLines(out, VarLines) = 2
    /\ CountLines(out, AssignLines) = 1

\* C16: `variables` is changed by Assign only: a tree with no Assign node
\* leaves it as it was, and no evaluation removes a binding.
C16_OnlyAssignMutates ==
    pc = "returned" =>
        /\ ~ContainsAssign(node) => variables = before
        /\ \A v \in DOMAIN before : Bound(variables, v)

\* a binary operation on an undefined and a defined name, no Assign in it,
\* returned and left the bindings as they were
C16_Witness ==
    /\ pc = "returned"
    /\ node.kind = "BinOp"
    /\ ~ContainsAssign(node)
    /\ CountLines(out, {"Variable no definida"}) > 0
    /\ before # EmptyMap
    /\ variables = before

\* the kinds of token the character c can start
StartedBy(c) ==
    IF is_whitespace(c) THEN {}
    ELSE IF c \in OperatorChars THEN {"Operator"}
    ELSE IF c = "\"" THEN {"StringLiteral"}
    ELSE IF is_ascii_digit(c) THEN {"Number", "Unknown"}
    ELSE IF is_ascii_alphabetic(c) THEN {"Var", "Identifier"}
    ELSE IF c = ":" THEN {"Assign", "Unknown"}
    ELSE {"Unknown"}

\* tokenize("var x := 3 + 4")
Scenario == <<"v", "a", "r", " ", "x", " ", ":", "=", " ", "3", " ", "+", " ", "4">>

\* one iteration: whitespace pushes nothing; any other character pushes exactly
\* one token, of a kind that character starts, at the end of tokens
TokensInInputOrder ==
    (lexpc = "loop" /\ pos' # pos) =>
        LET c == At(chars, pos)
        IN  IF is_whitespace(c) THEN tokens' = tokens
            ELSE /\ Len(tokens') = Len(tokens) + 1
                 /\ SubSeq(tokens', 1, Len(tokens)) = tokens
                 /\ tokens'[Len(tokens')].type \in StartedBy(c)
                 /\ pos' > pos

\* C14: tokenize("var x := 3 + 4") returns [Var, Identifier("x"), Assign,
\* Number(3), Operator("+"), Number(4)]; whitespace produces no token, and
\* tokens are pushed in the order of their first characters in the input.
C14_ScenarioAndOrder ==
    /\ []((lexpc = "done" /\ chars = Scenario) =>
              tokens = <<Token("Var"), Token_String("Identifier", <<"x">>),
                         Token("Assign"), Token_Number(F(3)),
                         Token_String("Operator", <<"+">>), Token_Number(F(4))>>)
    /\ []((lexpc = "done" /\ \A i \in 1..Len(chars) : is_whitespace(chars[i]))
              => tokens = <<>>)
    /\ [][TokensInInputOrder]_vars

\* the scenario has been tokenized into six tokens
C14_Witness ==
    /\ lexpc = "done"
    /\ chars = Scenario
    /\ Len(tokens) = 6
    /\ tokens[1] = Token("Var")

\* the iteration at pos meets a character that starts no other token
StartsNoToken ==
    /\ lexpc = "loop"
    /\ pos < Len(chars)
    /\ ~is_whitespace(At(chars, pos))
    /\ At(chars, pos) \notin OperatorChars \cup {"\""}
    /\ ~is_ascii_alphanumeric(At(chars, pos))
    /\ ~(At(chars, pos) = ":" /\ pos + 2 <= Len(chars) /\ chars[pos + 2] = "=")

\* C15: tokenize terminates on every input and returns tokens, never an
\* error: every iteration moves the cursor forward, by no more than one past
\* the end of the input; every read of chars is inside the input; there are
\* never more tokens than characters; and a character that starts no other
\* token is pushed as Unknown.
C15_LexerTotal ==
    /\ <>(lexpc = "done")
    /\ [][lexpc' = "loop" => (pos' > pos /\ pos' <= Len(chars) + 1)]_vars
    /\ [](Looping => \A i \in reads(chars, pos) : 0 <= i /\ i < Len(chars))
    /\ [](Len(tokens) <= Len(chars))
    /\ [][StartsNoToken =>
              (tokens' = Append(tokens, Token_String("Unknown", <<At(chars, pos)>>))
               /\ pos' = pos + 1)]_vars

\* an input with an unterminated string literal and an unrecognized
\* character has been tokenized: the cursor ended one past the end
C15_Witness ==
    /\ lexpc = "done"
    /\ chars = <<"#", ":", "\"", "a">>
    /\ tokens = <<Token_String("Unknown", <<"#">>), Token_String("Unknown", <<":">>),
                  Token_String("StringLiteral", <<"a">>)>>
    /\ pos = Len(chars) + 1

\* what a reference to name returns on an Interpreter whose map is self
Lookup(self, name) ==
    IF name \in DOMAIN math_constants THEN Value_Number(math_constants[name])
    ELSE IF name \in DOMAIN self THEN Value_Number(self[name])
    ELSE Value_None

\* a call on the first Interpreter has returned (i = 1), or on the second
Returned(i) == IF i = 1 THEN pc = "returned" ELSE peer.pc = "returned"
CallOf(i) == IF i = 1 THEN node ELSE peer.node
ResultOf(i) == IF i = 1 THEN result ELSE peer.result
BeforeOf(i) == IF i = 1 THEN before ELSE peer.before
MapOf(i) == IF i = 1 THEN variables ELSE peer.variables

\* what Interpreter i returned depends on its own map and the builtin tables
OwnStateOnly(i) ==
    Returned(i) =>
        /\ CallOf(i).kind = "Var" => ResultOf(i) = Lookup(BeforeOf(i), CallOf(i).name)
        /\ (CallOf(i).kind = "Var" /\ CallOf(i).name = "PI")
               => ResultOf(i) = Value_Number(MathPI)
        /\ (CallOf(i).kind = "Var" /\ CallOf(i).name = "E")
               => ResultOf(i) = Value_Number(MathE)
        /\ CallOf(i).kind = "FunctionCall" =>
               ResultOf(i) = IF Bound(BeforeOf(i), "x")
                             THEN Value_Number(MathModule_sqrt(BeforeOf(i)["x"]))
                             ELSE Value_None
        /\ CallOf(i).kind = "Assign" =>
               MapOf(i) = insert(BeforeOf(i), CallOf(i).name, CallOf(i).expr.value)

\* C17: two Interpreters share no mutable state: under every interleaving of
\* calls on the two, what a reference returns on one is the binding of its
\* own map (never a binding assigned on the other), a step of one leaves the
\* map of the other as it was, and references to PI and E and calls of sqrt
\* are answered from the same builtin tables on both, whatever was assigned.
C17_InterpretersIndependent ==
    /\ [](OwnStateOnly(1) /\ OwnStateOnly(2))
    /\ [][(interpVars' # interpVars => peer' = peer)
          /\ (peer' # peer => variables' = variables)]_vars

\* x is 1 on the first Interpreter and has just been assigned 2 on the second,
\* while a reference to x on the first has returned 1
C17_Witness ==
    /\ pc = "returned"
    /\ node = Var("x")
    /\ result = Value_Number(F(1))
    /\ peer.pc = "returned"
    /\ peer.node = Assign("x", Number(F(2)))
    /\ peer.variables["x"] = F(2)

\* the words of phrase occur in text, in order and next to each other
Contains(text, phrase) ==
    \E i \in 0..(Len(text) - Len(phrase)) :
        \A j \in 1..Len(phrase) : text[i + j] = Word(phrase[j])

\* a stability or min_dead_load command with seven parameters has returned
FloorsCommand ==
    /\ request.fn = "calc_architecture_command"
    /\ to_lowercase(request.calculation_type) \in {"stability", "min_dead_load"}
    /\ Len(request.params) = 7

\* the floors parameter of the command that has returned
Floors ==
    IF to_lowercase(request.calculation_type) = "stability"
    THEN request.params[6] ELSE request.params[5]

\* C18: calc_architecture_command for "stability" and "min_dead_load" rejects
\* an unsafe floors parameter with an error that names the cause: NaN or
\* infinite, negative, or above u32::MAX.
C18_DistinctFloorsErrors ==
    FloorsCommand =>
        /\ Floors.k \in {"nan", "inf"} =>
               /\ Contains(reply, <<"Error">>)
               /\ Contains(reply, <<"Number", "of", "floors", "cannot", "be", "NaN", "or",
                                    "infinite">>)
        /\ (Floors.k = "fin" /\ FLt(Floors, Zero(1))) =>
               /\ Contains(reply, <<"Error">>)
               /\ Contains(reply, <<"Number", "of", "floors", "cannot", "be", "negative">>)
        /\ Floors.k = "huge" =>
               /\ Contains(reply, <<"Error">>)
               /\ Contains(reply, <<"Number", "of", "floors", "exceeds", "maximum",
                                    "allowed", "value">>)

\* verify_building_stability has returned Ok
StabilityOk == request.fn = "verify_building_stability" /\ reply.ok

\* C19: every Ok result of verify_building_stability has is_stable =
\* (stability_ratio >= 3) and safety_margin = stability_ratio - 3, so that
\* is_stable holds exactly when safety_margin >= 0; a ratio of exactly 3 is
\* stable, with margin 0.
C19_StableIffRatioAtLeastThree ==
    StabilityOk =>
        LET r == reply.val
        IN  /\ r.is_stable = ~FLt(r.stability_ratio, F(3))
            /\ FAdd(r.safety_margin, F(3)) = r.stability_ratio
            /\ r.is_stable = (r.safety_margin.s = 1 \/ IsZero(r.safety_margin))
            /\ r.stability_ratio = F(3) => (r.is_stable /\ IsZero(r.safety_margin))
            /\ r.stability_ratio.k = "fin"

\* a building whose ratio is exactly 3: Me = 3 * 12 * 2.5 = 90, Mv = 30 * 1
C19_Witness ==
    /\ StabilityOk
    /\ request.dead_load_per_sqm = F(3)
    /\ request.site.num_floors = 1
    /\ reply.val.resisting_moment = F(90)
    /\ reply.val.overturning_moment = F(30)
    /\ reply.val.stability_ratio = F(3)
    /\ reply.val.is_stable
    /\ reply.val.safety_margin = Zero(1)

\* check_wind_stiffness_compliance has returned Ok
WindStiffnessOk == request.fn = "check_wind_stiffness_compliance" /\ reply.ok

\* the two sides passed are positive numbers, s the shorter and l the longer
ShorterLonger(s, l) ==
    /\ {s, l} = {request.length_a, request.width_b}
    /\ ~FLt(l, s)

\* C20: every Ok result of check_wind_stiffness_compliance has is_compliant
\* = (slenderness_ratio > 1/5), strictly; a warning_message exactly when not
\* compliant; slenderness_ratio = shorter side / longer side; and length_a >=
\* width_b, the longer side first, in whichever order the sides were passed.
C20_WindStiffnessResult ==
    WindStiffnessOk =>
        LET r == reply.val
        IN  /\ r.is_compliant = FLt(Fin(1, 1, 5), r.slenderness_ratio)
            /\ r.slenderness_ratio = Fin(1, 1, 5) => ~r.is_compliant
            /\ r.warning_message.some = ~r.is_compliant
            /\ ShorterLonger(r.width_b, r.length_a)
            /\ r.slenderness_ratio = FDiv(r.width_b, r.length_a)
            /\ ~FLt(r.length_a, r.width_b)

\* the sides 4 and 20, the shorter passed first: the ratio is exactly 1/5,
\* which is not compliant
C20_Witness ==
    /\ WindStiffnessOk
    /\ request.length_a = F(4)
    /\ request.width_b = F(20)
    /\ reply.val.length_a = F(20)
    /\ reply.val.width_b = F(4)
    /\ reply.val.slenderness_ratio = Fin(1, 1, 5)
    /\ ~reply.val.is_compliant
    /\ reply.val.warning_message.some

\* the dead load of the call is the one calculate_minimum_dead_load returned
\* for the same building and wind with safety factor 3.0
MinimumLoadVerified ==
    /\ request.fn = "verify_building_stability"
    /\ "safety_factor" \in DOMAIN request
    /\ request.safety_factor = F(3)

\* C21: whenever calculate_minimum_dead_load(w, a, b, h, n, d, 3.0) returned a
\* load, verify_building_stability(that load, w, a, b, h, n, d) returns a
\* result with stability_ratio 3.0 and is_stable = true.  (A fraction of the
\* model within 1e-10 of 3 is 3: its distance from 3 would have a
\* denominator above 10^10.)
C21_MinimumLoadGivesRatioThree ==
    MinimumLoadVerified =>
        /\ reply.ok
        /\ reply.val.stability_ratio = F(3)
        /\ reply.val.is_stable

\* the round trip of the test (tests/mod.rs:464-500): the ratio is 3
C21_RatioThreeReached ==
    /\ MinimumLoadVerified
    /\ request.site.wind_load_per_sqm = F(2)
    /\ reply.ok
    /\ reply.val.stability_ratio = F(3)
    /\ reply.val.is_stable
\* the iteration at pos starts at a double quote
AtQuote == Looping /\ At(chars, pos) = "\""

\* the index of the next quote after index p, or chars.len() when there is none
Closing(p) ==
    LET later == {i \in (p + 1)..(Len(chars) - 1) : At(chars, i) = "\""}
    IN  IF later = {} THEN Len(chars)
        ELSE CHOOSE i \in later : \A j \in later : i <= j

\* C22: the iteration that starts at a double quote pushes one StringLiteral
\* holding the characters between that quote and the next quote, or the end
\* of the input when no quote follows; the text holds no quote; the cursor
\* ends one past the closing position, every read is inside the input, and
\* after an unmatched quote the loop condition fails.
C22_StringClosedByQuoteOrEnd ==
    [][AtQuote =>
         LET close == Closing(pos)
             text == [i \in 1..(close - pos - 1) |-> At(chars, pos + i)]
         IN  /\ tokens' = Append(tokens, Token_String("StringLiteral", text))
             /\ \A i \in DOMAIN text : text[i] # "\""
             /\ pos' = close + 1
             /\ \A i \in reads(chars, pos) : i < Len(chars)
             /\ close = Len(chars) =>
                    /\ text = Slice(chars, pos + 1, Len(chars))
                    /\ ~(pos' < Len(chars))]_vars

\* an input whose third and last quote is unmatched has been tokenized: the
\* second literal holds the space after that quote
C22_Witness ==
    /\ lexpc = "done"
    /\ chars = <<"\"", "\"", "\"", " ">>
    /\ tokens = <<Token_String("StringLiteral", <<>>),
                  Token_String("StringLiteral", <<" ">>)>>
    /\ pos = Len(chars) + 1
\* the iteration at pos starts at a digit
AtDigit == Looping /\ is_ascii_digit(At(chars, pos))

\* the end of the numeric run that starts at index p: the first index from p
\* on whose character is neither a digit nor '.', or chars.len()
RunEnd(p) ==
    LET stops == {i \in p..(Len(chars) - 1) : At(chars, i) \notin DOMAIN DigitValue \cup {"."}}
    IN  IF stops = {} THEN Len(chars)
        ELSE CHOOSE i \in stops : \A j \in stops : i <= j

\* the digits of a run, its decimal points left out
DigitsOf(run) == SelectSeq(run, LAMBDA c : c # ".")

\* the number of digits after the only '.' of a run (0 when it has none)
Decimals(run) ==
    IF \E i \in 1..Len(run) : run[i] = "."
    THEN Len(run) - (CHOOSE i \in 1..Len(run) : run[i] = ".")
    ELSE 0

\* C23: the iteration that starts at a digit consumes the whole run of digits
\* and '.' and pushes exactly one token: Number(value of the run) when the
\* run has at most one '.', and Unknown(the entire run) when it has two or
\* more, in which case no Number is pushed for any part of the run.
C23_NumericRun ==
    [][AtDigit =>
         LET end == RunEnd(pos)
             run == [i \in 1..(end - pos) |-> At(chars, pos + i - 1)]
             points == Cardinality({i \in DOMAIN run : run[i] = "."})
         IN  /\ pos' = end
             /\ Len(tokens') = Len(tokens) + 1
             /\ SubSeq(tokens', 1, Len(tokens)) = tokens
             /\ points <= 1 =>
                    tokens'[Len(tokens')] =
                        Token_Number(Fin(1, Decimal(DigitsOf(run)), Pow10(Decimals(run))))
             /\ points >= 2 =>
                    tokens'[Len(tokens')] = Token_String("Unknown", run)]_vars

\* the run 3.3. has two decimal points: it has been tokenized into one
\* Unknown holding all four characters
C23_Witness ==
    /\ lexpc = "done"
    /\ chars = <<"3", ".", "3", ".">>
    /\ tokens = <<Token_String("Unknown", <<"3", ".", "3", ".">>)>>
    /\ pos = 4
\* the iteration at pos starts at an ASCII letter
AtLetter == Looping /\ is_ascii_alphabetic(At(chars, pos))

\* the end of the identifier run that starts at index p: the first index
\* from p on whose character is no ASCII letter, digit or underscore, or
\* chars.len()
IdentEnd(p) ==
    LET stops == {i \in p..(Len(chars) - 1) :
                     ~(is_ascii_alphanumeric(At(chars, i)) \/ At(chars, i) = "_")}
    IN  IF stops = {} THEN Len(chars)
        ELSE CHOOSE i \in stops : \A j \in stops : i <= j

\* what tokenize returned for the input cs
Tokenized(cs, ts) == (lexpc = "done" /\ chars = cs) => tokens = ts

\* C24: the iteration that starts at an (ASCII) letter consumes the maximal
\* run of letters, digits and underscores and pushes Var exactly when the run
\* is `var`, Identifier(run) otherwise: `variable`, `var_1` and `Var` are
\* Identifiers.  An underscore starts no identifier: it is pushed as
\* Unknown("_") and the run after it is lexed on its own.
C24_IdentifierOrKeyword ==
    /\ [][AtLetter =>
            LET end == IdentEnd(pos)
                run == [i \in 1..(end - pos) |-> At(chars, pos + i - 1)]
            IN  /\ pos' = end
                /\ run = <<"v", "a", "r">> => tokens' = Append(tokens, Token("Var"))
                /\ run # <<"v", "a", "r">> =>
                       tokens' = Append(tokens, Token_String("Identifier", run))]_vars
    /\ [][(Looping /\ At(chars, pos) = "_") =>
            (tokens' = Append(tokens, Token_String("Unknown", <<"_">>)) /\ pos' = pos + 1)]_vars
    /\ [](Tokenized(<<"v", "a", "r", "i", "a", "b", "l", "e">>,
                    <<Token_String("Identifier", <<"v", "a", "r", "i", "a", "b", "l", "e">>)>>))
    /\ [](Tokenized(<<"v", "a", "r", "_", "1">>,
                    <<Token_String("Identifier", <<"v", "a", "r", "_", "1">>)>>))
    /\ [](Tokenized(<<"V", "a", "r">>, <<Token_String("Identifier", <<"V", "a", "r">>)>>))
    /\ [](Tokenized(<<"v", "a", "r">>, <<Token("Var")>>))

\* `var+_var` has been tokenized: the keyword, the operator, the underscore
\* as Unknown, and the keyword again
C24_Witness ==
    /\ lexpc = "done"
    /\ chars = <<"v", "a", "r", "+", "_", "v", "a", "r">>
    /\ tokens = <<Token("Var"), Token_String("Operator", <<"+">>),
                  Token_String("Unknown", <<"_">>), Token("Var")>>
NegativeMoment ==
    Err(Words(<<"Negative", "overturning", "moment", "is", "physically", "impossible">>))

\* the parameters of a call of verify_building_stability pass the checks of
\* lines 306-310
ParametersValid ==
    /\ request.fn = "verify_building_stability"
    /\ FGt(request.dead_load_per_sqm, Zero(1))
    /\ validate_building_parameters(request.site.dims[1], request.site.dims[2],
                                    request.site.building_height,
                                    request.site.num_floors).ok
    /\ validate_wind_parameters(request.site.wind_load_per_sqm,
                                request.site.wind_force_height,
                                request.site.building_height).ok

\* Mv = qw * h * a * d of the call
Overturning ==
    FMul(FMul(FMul(request.site.wind_load_per_sqm, request.site.building_height),
              request.site.dims[1]),
         request.site.wind_force_height)

\* the result is one of the two ratios
RatioOrPerfect(r) ==
    \/ /\ FGt(r.overturning_moment, Zero(1))
       /\ r.overturning_moment.k = "fin"
       /\ FMul(r.stability_ratio, r.overturning_moment) = r.resisting_moment
    \/ /\ r.overturning_moment.k = "tiny" \/ IsZero(r.overturning_moment)
       /\ r.stability_ratio = F(1000000)
       /\ r.is_stable

SlendernessCalled == request.fn = "calculate_slenderness_ratio"

\* x is a finite number above zero
PositiveFinite(x) == x.k = "fin" /\ x.s = 1 /\ x.n > 0

\* the result is Ok(r) with 0 < r <= 1
RatioInUnitInterval == reply.ok /\ FGt(reply.val, Zero(1)) /\ FLe(reply.val, F(1))

\* the statement as first made: every pair of arguments above zero gives
\* Ok(r) with 0 < r <= 1
C26_Original ==
    (/\ SlendernessCalled
     /\ FGt(request.length_a, Zero(1))
     /\ FGt(request.width_b, Zero(1))) => RatioInUnitInterval

\* C26: calculate_slenderness_ratio(length, width) returns "Building length
\* must be positive" when length <= 0, whatever the width, and "Building
\* width must be positive" when only width <= 0; for finite arguments above
\* zero it returns Ok(r) with 0 < r <= 1, r the shorter side over the longer,
\* and the same result with the arguments swapped.  With an infinite side
\* and a finite one r is 0; with two infinite sides the result is an error.
C26_SlendernessRatio ==
    SlendernessCalled =>
        LET l == request.length_a
            w == request.width_b
        IN  /\ FLe(l, Zero(1)) =>
                   reply = Err(Words(<<"Building", "length", "must", "be", "positive">>))
            /\ (~FLe(l, Zero(1)) /\ FLe(w, Zero(1))) =>
                   reply = Err(Words(<<"Building", "width", "must", "be", "positive">>))
            /\ (PositiveFinite(l) /\ PositiveFinite(w)) =>
                   /\ RatioInUnitInterval
                   /\ FMul(reply.val, IF FLt(l, w) THEN w ELSE l) = (IF FLt(l, w) THEN l ELSE w)
                   /\ reply = calculate_slenderness_ratio(w, l)
            /\ (l = Inf(1) /\ PositiveFinite(w)) \/ (PositiveFinite(l) /\ w = Inf(1)) =>
                   reply = Ok(Zero(1))
            /\ (l = Inf(1) /\ w = Inf(1)) =>
                   /\ ~reply.ok
                   /\ Contains(reply.err, <<"Slenderness", "ratio", "calculation",
                                            "resulted", "in", "invalid", "value">>)

\* calculate_slenderness_ratio(4, 20) and (20, 4) both give 1/5
C26_Witness ==
    /\ SlendernessCalled
    /\ request.length_a = F(4)
    /\ request.width_b = F(20)
    /\ reply = Ok(Fin(1, 1, 5))
    /\ calculate_slenderness_ratio(F(20), F(4)) = reply
\* the variants of Token that tokenize constructs
Pushed == {"Var", "Identifier", "Assign", "Number", "StringLiteral", "Operator", "Unknown"}

\* the iteration at pos starts at a ':' that no '=' follows
LoneColon ==
    /\ Looping
    /\ At(chars, pos) = ":"
    /\ (pos + 1 = Len(chars) \/ chars[pos + 2] # "=")

\* C27: every token tokenize has pushed is Var, Identifier, Assign, Number,
\* StringLiteral, Operator or Unknown, never BeginSection, EndSection or Comment,
\* whatever the input (braces, '#' and '//' included); and a ':' that is not
\* immediately followed by '=' is pushed as Unknown(":"), the cursor moving
\* one character.
C27_OnlySevenVariants ==
    /\ [](\A i \in DOMAIN tokens :
              /\ tokens[i].type \in Pushed
              /\ tokens[i].type \notin {"BeginSection", "EndSection", "Comment"})
    /\ [][LoneColon =>
              (/\ tokens' = Append(tokens, Token_String("Unknown", <<":">>))
               /\ pos' = pos + 1)]_vars

\* braces, a '#', two slashes, a name and a ':' at the end of the input have
\* been tokenized
C27_Witness ==
    /\ lexpc = "done"
    /\ chars = <<"{", "#", "}", "/", "/", "a", ":">>
    /\ tokens = <<Token_String("Unknown", <<"{">>), Token_String("Unknown", <<"#">>),
                  Token_String("Unknown", <<"}">>), Token_String("Operator", <<"/">>),
                  Token_String("Operator", <<"/">>), Token_String("Identifier", <<"a">>),
                  Token_String("Unknown", <<":">>)>>
\* the lines of the inputs that are the word exit between whitespace
ExitLines ==
    {<<"e", "x", "i", "t", "\n">>, <<" ", "e", "x", "i", "t", " ", "\n">>,
     <<"e", "x", "i", "t">>}

\* standard input is at its end and the loop is about to read
EndOfInput == replpc = "read" /\ stdin = <<>>

\* C28: start_repl leaves its loop only by the exit taken when the line just
\* read, trimmed, is "exit"; every other line read without error is printed
\* and the loop goes on to the next read; and once standard input is at its
\* end the loop never exits: it reads the empty input and prints it, again
\* and again.
C28_ExitOnlyOnExitLine ==
    /\ [][(replpc' = "exited" /\ replpc # "exited") =>
              (replpc = "test" /\ input \in ExitLines)]_vars
    /\ [][(replpc = "test" /\ input \notin ExitLines) =>
              (printed' = input \o <<"\n">> /\ replpc' = "read" /\ stdin' = stdin)]_vars
    /\ [][(replpc = "test" /\ input \in ExitLines) => replpc' = "exited"]_vars
    /\ [](EndOfInput => [](replpc # "exited"))
    /\ [](EndOfInput => []<>(replpc = "test" /\ input = <<>>))
    /\ [](EndOfInput => []<>(replpc = "read" /\ printed = <<"\n">>))

\* the input has ended, and the empty input has been read and printed
C28_Witness ==
    /\ EndOfInput
    /\ input = <<>>
    /\ printed = <<"\n">>
\* the map without its binding of name
Without(self, name) == [v \in DOMAIN self \ {name} |-> self[v]]

\* trees that read names, the constants' among them, in every position
Probes ==
    Atoms \cup Inner
          \cup {BinOp(Var("PI"), "+", Var("x")), Assign("x", Var("PI")),
                Assign("y", BinOp(Var("PI"), "*", Number(F(2)))),
                FunctionCall("abs", <<Var("PI")>>),
                FunctionCall("unknown_fn", <<Var("PI"), Var("E")>>)}

\* an assignment to a builtin constant's name whose expr gave a Number has
\* returned
ConstantAssigned ==
    /\ pc = "returned"
    /\ node.kind = "Assign"
    /\ node.name \in DOMAIN math_constants
    /\ accept(before, node.expr).value.kind = "Number"

\* C29: Assign(c, expr) with c a builtin constant's name and expr evaluating
\* to Number(v) returns Number(v), prints the line of a successful
\* assignment and binds c to v in `variables`; a reference to c returns the
\* constant all the same; and for PI and for E alike, on every map reached,
\* no tree evaluates differently, in value or in printed lines or in the
\* other bindings it leaves, after c has been assigned 1 than on the map
\* without a binding of c.
C29_ConstantBindingUnobservable ==
    /\ ConstantAssigned =>
           LET v == accept(before, node.expr).value.num
           IN  /\ result = Value_Number(v)
               /\ Bound(variables, node.name)
               /\ variables[node.name] = v
               /\ out[Len(out)] = [line |-> "Asignando", name |-> node.name, num |-> v]
    /\ pc = "idle" => \A c \in DOMAIN math_constants :
           LET assigned == accept(variables, Assign(c, Number(F(1))))
           IN  /\ assigned.value = Value_Number(F(1))
               /\ assigned.variables[c] = F(1)
               /\ accept(assigned.variables, Var(c)).value = Value_Number(math_constants[c])
               /\ \A t \in Probes :
                      LET with == accept(assigned.variables, t)
                          without == accept(Without(variables, c), t)
                      IN  /\ with.value = without.value
                          /\ with.out = without.out
                          /\ Without(with.variables, c) = Without(without.variables, c)

\* PI has been assigned 1: the assignment returned 1 and PI is bound to 1
C29_Witness ==
    /\ ConstantAssigned
    /\ node = Assign("PI", Number(F(1)))
    /\ result = Value_Number(F(1))
    /\ variables["PI"] = F(1)
    /\ accept(variables, Var("PI")).value = Value_Number(MathPI)
\* a call of a builtin function with exactly one argument has returned
BuiltinCallOneArgument ==
    /\ pc = "returned"
    /\ node.kind = "FunctionCall"
    /\ node.name \in math_functions
    /\ Len(node.args) = 1

\* C30: a call of a builtin function with exactly one argument evaluates the
\* argument once, after the line of the call and before the line that tells
\* whether it was a Number: what the call prints is the call's line, the
\* lines of one evaluation of the argument, and one closing line.  When the
\* argument is no Number the call returns None and prints the error, and the
\* map it leaves is the map the argument's evaluation left, bindings made
\* inside the argument included.
C30_ArgumentEvaluatedOnceBindingsKept ==
    BuiltinCallOneArgument =>
        LET arg == accept(before, node.args[1])
        IN  /\ Len(out) = Len(arg.out) + 2
            /\ out[1] = [line |-> "Llamada a funcion", name |-> node.name, nargs |-> 1]
            /\ SubSeq(out, 2, Len(out) - 1) = arg.out
            /\ variables = arg.variables
            /\ \A v \in DOMAIN arg.variables : Bound(variables, v)
            /\ arg.value.kind # "Number" =>
                   /\ result = Value_None
                   /\ out[Len(out)] = [line |-> "Error: argumento debe ser un numero",
                                       name |-> node.name]
            /\ arg.value.kind = "Number" => out[Len(out)].line = "Resultado"

\* sqrt of a call that yields None after binding y: the call returned None
\* and y, not bound before, is bound after
C30_Witness ==
    /\ BuiltinCallOneArgument
    /\ node = FunctionCall("sqrt", <<FunctionCall("unknown_fn", <<Assign("y", Number(F(1)))>>)>>)
    /\ result = Value_None
    /\ ~Bound(before, "y")
    /\ Bound(variables, "y")
    /\ CountLines(out, AssignLines) = 1
====
